---- MODULE Spec2Model ----
(***************************************************************************)
(* Model of the temperature cron engine of eightsleep-nosub-app            *)
(* (src/src/app/api/temperatureCron/route.ts).                             *)
(*                                                                         *)
(* Time is counted in minutes.  A Date is the number of minutes since the  *)
(* midnight that starts day 0; a time-of-day string "HH:MM[:SS]" is the    *)
(* sequence of the numbers its ':'-separated parts convert to.             *)
(*                                                                         *)
(* Spec is the engine: runs of adjustTemperature over the stored profiles, *)
(* with the beds changing by hand between runs.  SpecWindow and SpecStage  *)
(* apply isInTimeWindow and getCurrentSleepStage to enumerated inputs.     *)
(* SpecRetry is the loop of retryApiCall.  SpecRequest and SpecSettings    *)
(* are one GET request and its run, a pass of the per-user loop being one  *)
(* step; SpecAttempts takes the run attempt by attempt, and FairAttempts   *)
(* adds that every call settles.  SpecNight is three runs in one night.    *)
(* SpecOverlap is two live runs interleaved at their awaits; SpecProfiles  *)
(* is setActiveProfile and deleteSleepProfile sent from two sessions.      *)
(***************************************************************************)
EXTENDS Integers, Sequences, FiniteSets, TLC

VARIABLES
    win,        \* application of isInTimeWindow under test
    stg,        \* application of getCurrentSleepStage under test
    profiles,   \* rows of userTemperatureProfile, by user
    schedules,  \* the sleepProfiles row activeProfileId refers to, by user
    device,     \* heating state of each user's bed side
    clock,      \* wall clock of the last started run
    runs,       \* number of runs started so far
    run,        \* the run in progress: pc, testMode, now, index in the list
    visits,     \* profiles the current (or last) run has taken a decision for
    cmds,       \* device commands the current (or last) run has issued
    issued,     \* per user: the last setLevel that reached the device
    foundOff,   \* per user: when a run first found the bed off after such a setLevel
    users,      \* rows of users: the stored token of each user
    req,        \* the request GET is serving, and its response
    calls,      \* calls the run has made to the device API and the token service
    logs,       \* what the run has written to the console
    rt,         \* application of retryApiCall under test
    overlap,    \* two live runs under way at once: the position of each
    service,    \* per user: the tokens the token service has issued, in order
    sleepRows,  \* rows of sleepProfiles: id and owner
    mutations   \* sleep-profile mutations under way: input and position

vars == <<win, stg, profiles, schedules, device, clock, runs, run,
          visits, cmds, issued, foundOff, users, req, calls, logs, rt,
          overlap, service, sleepRows, mutations>>

\* What the handlers of GET and the retry loop add to the engine's state
requestVars == <<users, req, calls, logs, rt>>

\* What overlapping runs and the sleep-profile mutations add to it
mutationVars == <<overlap, service, sleepRows, mutations>>

----------------------------------------------------------------------------
(* Bounds of the model *)

WinMax == 5         \* isInTimeWindow is tried on instants 0..WinMax
MaxRuns == 2        \* runs of adjustTemperature in one behaviour
NumUsers == 2       \* rows the profile query returns

----------------------------------------------------------------------------
(* Dates and times of day *)

MinutesPerDay == 1440

HM(h, m) == <<h, m, 0>>

DayStart(date) == date - (date % MinutesPerDay)

MinuteOfDay(date) == date % MinutesPerDay

\* A string part that Number() cannot convert
NaN == 99999

isNaN(x) == x = NaN

\* Mutant: hours and minutes are not checked against their ranges
createDateWithTime_NoRange(baseDate, timeString) ==
    IF \/ Len(timeString) < 2
       \/ isNaN(timeString[1]) \/ isNaN(timeString[2])
    THEN [ok |-> FALSE, date |-> 0]
    ELSE [ok |-> TRUE,
          date |-> DayStart(baseDate) + timeString[1] * 60 + timeString[2]]

\* The value of new Date(baseDate).setHours(hours, minutes, 0, 0), or the
\* thrown "Invalid time string" error.
createDateWithTime(baseDate, timeString) ==
    IF \/ Len(timeString) < 2
       \/ isNaN(timeString[1]) \/ isNaN(timeString[2])
       \/ timeString[1] < 0 \/ timeString[1] > 23
       \/ timeString[2] < 0 \/ timeString[2] > 59
    THEN [ok |-> FALSE, date |-> 0]
    ELSE [ok |-> TRUE,
          date |-> DayStart(baseDate) + timeString[1] * 60 + timeString[2]]

----------------------------------------------------------------------------
(* isInTimeWindow *)

isInTimeWindow_EndInclusive(now, start, end) ==
    IF start <= end
    THEN now >= start /\ now <= end
    ELSE now >= start \/ now < end

\* Mutant: the start of the window is left out
isInTimeWindow_StartExclusive(now, start, end) ==
    IF start <= end
    THEN now > start /\ now < end
    ELSE now > start \/ now < end

isInTimeWindow(now, start, end) ==
    IF start <= end
    THEN now >= start /\ now < end
    ELSE now >= start \/ now < end

----------------------------------------------------------------------------
(* getCurrentSleepStage *)

NoLevel == [has |-> FALSE, level |-> 0]

Level(l) == [has |-> TRUE, level |-> l]

StageResult(stage, target) == [ok |-> TRUE, stage |-> stage, targetLevel |-> target]

StageError == [ok |-> FALSE, stage |-> "inactive", targetLevel |-> NoLevel]

PreHeatLead == 60          \* pre-heating starts 1h before bed

MidStageDelay == 60        \* the mid stage starts 1h after bed

FinalStageLead == 120      \* the final stage starts 2h before wake

OffEndAfterWake_Hour == 30 + 30

OffEndAfterWake == 30      \* the off stage ends 30min after wake

\* The stage of the cycle shifted by offset that contains userNow, if any
StageAtOffset(userNow, bedTime, wakeupTime, offset, initialLevel, midLevel, finalLevel) ==
    LET preHeatStart    == bedTime - PreHeatLead
        midStageStart   == bedTime + MidStageDelay
        finalStageStart == wakeupTime - FinalStageLead
        offEnd          == wakeupTime + OffEndAfterWake
        phs == preHeatStart + offset
        bt  == bedTime + offset
        ms  == midStageStart + offset
        fs  == finalStageStart + offset
        wt  == wakeupTime + offset
        oe  == offEnd + offset
    IN  IF userNow >= phs /\ userNow < bt
          THEN StageResult("pre-heating", Level(initialLevel))
        ELSE IF userNow >= bt /\ userNow < ms
          THEN StageResult("initial", Level(initialLevel))
        ELSE IF userNow >= ms /\ userNow < fs
          THEN StageResult("mid", Level(midLevel))
        ELSE IF userNow >= fs /\ userNow < wt
          THEN StageResult("final", Level(finalLevel))
        ELSE IF userNow >= wt /\ userNow < oe
          THEN StageResult("off", NoLevel)
        ELSE StageResult("inactive", NoLevel)

getCurrentSleepStage(userNow, bedTimeStr, wakeupTimeStr, initialLevel, midLevel, finalLevel) ==
    LET bed  == createDateWithTime(userNow, bedTimeStr)
        wake == createDateWithTime(userNow, wakeupTimeStr)
    IN  IF ~bed.ok \/ ~wake.ok THEN StageError
        ELSE
          LET bedTime    == bed.date
              wakeupTime == IF wake.date <= bedTime
                            THEN wake.date + MinutesPerDay
                            ELSE wake.date
              today      == StageAtOffset(userNow, bedTime, wakeupTime, 0,
                                          initialLevel, midLevel, finalLevel)
              yesterday  == StageAtOffset(userNow, bedTime, wakeupTime, -MinutesPerDay,
                                          initialLevel, midLevel, finalLevel)
          IN  IF today.stage # "inactive" THEN today ELSE yesterday

----------------------------------------------------------------------------
(* The decision adjustTemperature takes for one profile *)

PreheatActivationWindow == 45   \* minutes

PreheatHoldSeconds == 43200     \* 12 hours

StageHoldSeconds == 3600        \* 1 hour, refreshed by each run

\* A decision: the command to issue (kind, level, duration), and whether the
\* sleep stage was resolved to take it (evaluated, stage, target)
NoAction(stage, target, evaluated) ==
    [kind |-> "none", level |-> 0, duration |-> 0,
     stage |-> stage, target |-> target, evaluated |-> evaluated]

SetLevel(level, duration, stage, evaluated) ==
    [kind |-> "setLevel", level |-> level, duration |-> duration,
     stage |-> stage, target |-> Level(level), evaluated |-> evaluated]

TurnOff(stage, evaluated) ==
    [kind |-> "turnOff", level |-> 0, duration |-> 0,
     stage |-> stage, target |-> NoLevel, evaluated |-> evaluated]

\* createDateWithTime threw: the per-user catch logs it
Failure(evaluated) ==
    [kind |-> "error", level |-> 0, duration |-> 0,
     stage |-> "inactive", target |-> NoLevel, evaluated |-> evaluated]

\* new Date(now.toLocaleString("en-US", { timeZone })): the wall-clock reading
\* of now in the user's zone, the zone given by its offset from the server's
toUserLocal(now, tzOffset) == now + tzOffset

\* The preheat-only branch
PreheatDecision(tp, userNow, heatingStatus) ==
    LET preheatStart == createDateWithTime(userNow, tp.preheatTime)
    IN  IF ~preheatStart.ok THEN Failure(FALSE)
        ELSE
          LET preheatActivationEnd == preheatStart.date + PreheatActivationWindow
              inActivationWindow   == isInTimeWindow(userNow, preheatStart.date,
                                                     preheatActivationEnd)
          IN  IF inActivationWindow /\ ~heatingStatus.isHeating
              THEN SetLevel(tp.preheatLevel * 10, PreheatHoldSeconds, "preheat", FALSE)
              ELSE NoAction("preheat", NoLevel, FALSE)

\* Mutant: the sleep-cycle branch only looks at isHeating, not at the level
StageAction_IgnoreLevel(st, heatingStatus) ==
    IF st.stage # "inactive" /\ st.stage # "off" /\ st.targetLevel.has
    THEN IF ~heatingStatus.isHeating
         THEN SetLevel(st.targetLevel.level, StageHoldSeconds, st.stage, TRUE)
         ELSE NoAction(st.stage, st.targetLevel, TRUE)
    ELSE IF st.stage = "off" /\ heatingStatus.isHeating
    THEN TurnOff(st.stage, TRUE)
    ELSE NoAction(st.stage, st.targetLevel, TRUE)

\* Mutant: the sleep-cycle branch re-sends the level although it is correct
StageAction_AlwaysSet(st, heatingStatus) ==
    IF st.stage # "inactive" /\ st.stage # "off" /\ st.targetLevel.has
    THEN SetLevel(st.targetLevel.level, StageHoldSeconds, st.stage, TRUE)
    ELSE IF st.stage = "off" /\ heatingStatus.isHeating
    THEN TurnOff(st.stage, TRUE)
    ELSE NoAction(st.stage, st.targetLevel, TRUE)

\* Mutant: the off stage turns the bed off without looking at isHeating
StageAction_OffAlways(st, heatingStatus) ==
    IF st.stage # "inactive" /\ st.stage # "off" /\ st.targetLevel.has
    THEN IF ~heatingStatus.isHeating \/ heatingStatus.heatingLevel # st.targetLevel.level
         THEN SetLevel(st.targetLevel.level, StageHoldSeconds, st.stage, TRUE)
         ELSE NoAction(st.stage, st.targetLevel, TRUE)
    ELSE IF st.stage = "off"
    THEN TurnOff(st.stage, TRUE)
    ELSE NoAction(st.stage, st.targetLevel, TRUE)

\* Mutant: outside every stage a heating bed is turned off too
StageAction_InactiveOff(st, heatingStatus) ==
    IF st.stage # "inactive" /\ st.stage # "off" /\ st.targetLevel.has
    THEN IF ~heatingStatus.isHeating \/ heatingStatus.heatingLevel # st.targetLevel.level
         THEN SetLevel(st.targetLevel.level, StageHoldSeconds, st.stage, TRUE)
         ELSE NoAction(st.stage, st.targetLevel, TRUE)
    ELSE IF heatingStatus.isHeating
    THEN TurnOff(st.stage, TRUE)
    ELSE NoAction(st.stage, st.targetLevel, TRUE)

\* What the sleep-cycle branch does with the resolved stage
StageAction(st, heatingStatus) ==
    IF st.stage # "inactive" /\ st.stage # "off" /\ st.targetLevel.has
    THEN IF ~heatingStatus.isHeating \/ heatingStatus.heatingLevel # st.targetLevel.level
         THEN SetLevel(st.targetLevel.level, StageHoldSeconds, st.stage, TRUE)
         ELSE NoAction(st.stage, st.targetLevel, TRUE)
    ELSE IF st.stage = "off" /\ heatingStatus.isHeating
    THEN TurnOff(st.stage, TRUE)
    ELSE NoAction(st.stage, st.targetLevel, TRUE)

\* The sleep-cycle branch
CycleDecision(tp, userNow, heatingStatus) ==
    LET st == getCurrentSleepStage(userNow, tp.bedTime, tp.wakeupTime,
                                   tp.initialSleepLevel, tp.midStageSleepLevel,
                                   tp.finalSleepLevel)
    IN  IF ~st.ok THEN Failure(TRUE) ELSE StageAction(st, heatingStatus)

\* Mutant: a preheat-only profile falls through to the sleep-cycle branch
Decision_FallThrough(tp, userNow, heatingStatus) ==
    IF tp.preheatOnly /\ PreheatDecision(tp, userNow, heatingStatus).kind # "none"
    THEN PreheatDecision(tp, userNow, heatingStatus)
    ELSE IF tp.cycleEnabled
    THEN CycleDecision(tp, userNow, heatingStatus)
    ELSE NoAction("none", NoLevel, FALSE)

\* The body of the per-user loop after the status query
Decision(tp, userNow, heatingStatus) ==
    IF tp.preheatOnly
    THEN PreheatDecision(tp, userNow, heatingStatus)
    ELSE IF tp.cycleEnabled
    THEN CycleDecision(tp, userNow, heatingStatus)
    ELSE NoAction("none", NoLevel, FALSE)

----------------------------------------------------------------------------
(* The stored rows and the inputs the model draws from *)

Users == 1..NumUsers

At(day, h, m) == day * MinutesPerDay + h * 60 + m

Phase(time, level) == [time |-> time, level |-> level]

NoSchedule == [exists |-> FALSE, phases |-> <<>>, allowManualOverride |-> TRUE]

\* A sleepProfiles row: heat at 20 from 22:00, off at 07:00
NightSchedule ==
    [exists |-> TRUE,
     phases |-> <<Phase(HM(22, 0), Level(20)), Phase(HM(7, 0), NoLevel)>>,
     allowManualOverride |-> TRUE]

\* The row updateUserTemperatureProfile inserts: the fixed-cycle columns get
\* "22:00", "06:00", 0, 0, 0 and cycleEnabled its default, true
SettingsRow(preheatOnly, preheatTime, preheatLevel, activeProfileId, tzOffset) ==
    [preheatOnly |-> preheatOnly, preheatTime |-> preheatTime,
     preheatLevel |-> preheatLevel, activeProfileId |-> activeProfileId,
     tzOffset |-> tzOffset,
     bedTime |-> HM(22, 0), wakeupTime |-> HM(6, 0),
     initialSleepLevel |-> 0, midStageSleepLevel |-> 0, finalSleepLevel |-> 0,
     cycleEnabled |-> TRUE]

\* A row written before the sleep profiles existed: its own fixed cycle
CycleRow(bedTime, wakeupTime, initialLevel, midLevel, finalLevel, enabled) ==
    [SettingsRow(FALSE, HM(21, 0), 10, 0, 0) EXCEPT
        !.bedTime = bedTime, !.wakeupTime = wakeupTime,
        !.initialSleepLevel = initialLevel, !.midStageSleepLevel = midLevel,
        !.finalSleepLevel = finalLevel, !.cycleEnabled = enabled]

\* (settings row, active sleep profile) pairs a user can have stored.
\* activeProfileId 0 stands for null.  The last one is what deleteSleepProfile
\* leaves of the row whose active profile it deletes.
StoredConfigs ==
    { <<SettingsRow(TRUE, HM(21, 0), 5, 0, 0), NoSchedule>>,
      <<SettingsRow(TRUE, HM(23, 30), -10, 0, 0), NoSchedule>>,
      <<[CycleRow(HM(22, 0), HM(7, 0), 20, 10, 30, TRUE) EXCEPT !.activeProfileId = 1],
        NightSchedule>>,
      <<SettingsRow(FALSE, HM(21, 0), 10, 1, -60), NightSchedule>>,
      <<CycleRow(HM(22, 0), HM(7, 0), 20, 10, 30, FALSE), NoSchedule>>,
      <<SettingsRow(FALSE, HM(21, 0), 10, 0, 0), NoSchedule>> }

\* Instants at which a run can start
RunTimes ==
    { At(1, 21, 0), At(1, 21, 30), At(1, 23, 30),
      At(2, 0, 5), At(2, 7, 10), At(2, 7, 45) }

NotHeating == [isHeating |-> FALSE, heatingLevel |-> 0]

Heating(level) == [isHeating |-> TRUE, heatingLevel |-> level]

\* What a user sets the bed to by hand
ManualStates == { NotHeating, Heating(50) }

----------------------------------------------------------------------------
(* adjustTemperature *)

NeverIssued == [has |-> FALSE, at |-> 0, level |-> 0]

NeverFound == [has |-> FALSE, at |-> 0]

\* An instant after every run
FarFuture == At(9, 0, 0)

\* A users row whose token is good for the whole behaviour
ValidToken == [accessToken |-> 1, refreshToken |-> 1, expiresAt |-> FarFuture]

\* searchParams.get(name): null, or the text of the parameter as a sequence
\* of characters
Absent == [present |-> FALSE, text |-> <<>>]

Present(text) == [present |-> TRUE, text |-> text]

\* process.env.CRON_SECRET as configured, and a secret that is not configured
CronSecret == <<"k", "1">>

OtherSecret == <<"k", "2">>

\* `Bearer ${process.env.CRON_SECRET}`
BearerForm(secret) == <<"B", "e", "a", "r", "e", "r", " ">> \o secret

\* Authorization headers a request can carry: none, empty, the bare secret,
\* the bearer form of the secret, of another secret, in lower case, and
\* with a trailing space
AuthHeaders ==
    { Absent, Present(<<>>), Present(CronSecret), Present(BearerForm(CronSecret)),
      Present(BearerForm(OtherSecret)),
      Present(<<"b", "e", "a", "r", "e", "r", " ">> \o CronSecret),
      Present(BearerForm(CronSecret) \o <<" ">>) }

\* Mutant: the header only has to begin with the bearer form of the secret
Authorized_StartsWith(header) ==
    /\ header.present
    /\ Len(header.text) >= Len(BearerForm(CronSecret))
    /\ SubSeq(header.text, 1, Len(BearerForm(CronSecret))) = BearerForm(CronSecret)

\* !(authHeader !== `Bearer ${process.env.CRON_SECRET}`)
Authorized(header) == header = Present(BearerForm(CronSecret))

NoRequest == [state |-> "none", header |-> Absent, testTime |-> Absent, status |-> 0]

RtIdle == [state |-> "idle", retries |-> 0, i |-> 0, attempts |-> <<>>, delays |-> <<>>,
           result |-> "none"]

\* No run overlaps another, the token service has issued nothing, and no
\* sleep profile is stored or being changed
NoOverlap == <<>>

NoMutation == <<>>

MutationsAtRest ==
    /\ overlap = NoOverlap
    /\ service = [u \in Users |-> <<>>]
    /\ sleepRows = {}
    /\ mutations = NoMutation

\* No request is being served and every stored token is valid
NoRequestServed ==
    /\ users = [u \in Users |-> ValidToken]
    /\ req = NoRequest
    /\ calls = <<>>
    /\ logs = <<>>

\* ... and retryApiCall is not under test
RequestsAtRest == NoRequestServed /\ rt = RtIdle

Idle == [pc |-> "idle", testMode |-> FALSE, now |-> 0, idx |-> 0, id |-> 0,
         result |-> "none"]

\* The stored rows and the device before any run
NoRunYet ==
    /\ profiles = [u \in Users |-> SettingsRow(TRUE, HM(21, 0), 10, 0, 0)]
    /\ schedules = [u \in Users |-> NoSchedule]
    /\ device = [u \in Users |-> NotHeating]
    /\ clock = 0
    /\ runs = 0
    /\ run = Idle
    /\ visits = {}
    /\ cmds = {}
    /\ issued = [u \in Users |-> NeverIssued]
    /\ foundOff = [u \in Users |-> NeverFound]

\* The row a new user gets: the schema's defaults, preheat-only at 21:00
DefaultConfig == <<SettingsRow(TRUE, HM(21, 0), 10, 0, 0), NoSchedule>>

\* One user ranges over the stored configurations, at any place in the
\* list; the users around it have the default row
EngineInit ==
    /\ \E focus \in Users, cfg \in StoredConfigs :
          /\ profiles = [u \in Users |-> IF u = focus THEN cfg[1] ELSE DefaultConfig[1]]
          /\ schedules = [u \in Users |-> IF u = focus THEN cfg[2] ELSE DefaultConfig[2]]
    /\ device = [u \in Users |-> NotHeating]
    /\ clock = 0
    /\ runs = 0
    /\ run = Idle
    /\ visits = {}
    /\ cmds = {}
    /\ issued = [u \in Users |-> NeverIssued]
    /\ foundOff = [u \in Users |-> NeverFound]
    /\ RequestsAtRest

WinIdle == [now |-> 0, start |-> 0, end |-> 0, done |-> FALSE, result |-> FALSE]

StgIdle == [now |-> 0, bedTime |-> HM(0, 0), wakeupTime |-> HM(0, 0), done |-> FALSE,
            result |-> StageResult("inactive", NoLevel)]

Init == win = WinIdle /\ stg = StgIdle /\ MutationsAtRest /\ EngineInit

\* GET without testTime, or a profile mutation: adjustTemperature() on the wall clock
StartLiveRun ==
    /\ run.pc = "idle"
    /\ runs < MaxRuns
    /\ \E t \in RunTimes :
          /\ t > clock
          /\ clock' = t
          /\ run' = [pc |-> "fetch", testMode |-> FALSE, now |-> t, idx |-> 0,
                     id |-> runs + 1, result |-> "none"]
    /\ runs' = runs + 1
    /\ visits' = {} /\ cmds' = {}
    /\ UNCHANGED mutationVars
    /\ UNCHANGED <<win, stg, profiles, schedules, device, issued>>
    /\ UNCHANGED <<foundOff, requestVars>>

\* GET with testTime: adjustTemperature({ enabled: true, currentTime })
StartTestRun ==
    /\ run.pc = "idle"
    /\ runs < MaxRuns
    /\ \E t \in RunTimes :
          run' = [pc |-> "fetch", testMode |-> TRUE, now |-> t, idx |-> 0,
                  id |-> runs + 1, result |-> "none"]
    /\ runs' = runs + 1
    /\ visits' = {} /\ cmds' = {}
    /\ UNCHANGED mutationVars
    /\ UNCHANGED <<win, stg, profiles, schedules, device, clock, issued>>
    /\ UNCHANGED <<foundOff, requestVars>>

\* The profile query returns the rows
FetchProfiles ==
    /\ run.pc = "fetch"
    /\ run' = [run EXCEPT !.pc = "profile", !.idx = 1]
    /\ UNCHANGED mutationVars
    /\ UNCHANGED <<win, stg, profiles, schedules, device, clock, runs, visits, cmds,
                   issued>>
    /\ UNCHANGED <<foundOff, requestVars>>

\* The profile query throws: logged and rethrown by the outer catch
FetchProfilesFails ==
    /\ run.pc = "fetch"
    /\ run' = [run EXCEPT !.pc = "idle", !.result = "error"]
    /\ UNCHANGED mutationVars
    /\ UNCHANGED <<win, stg, profiles, schedules, device, clock, runs, visits, cmds,
                   issued>>
    /\ UNCHANGED <<foundOff, requestVars>>

\* The loop moves to the next profile, or the run ends
NextProfile(r) ==
    IF r.idx = NumUsers
    THEN [r EXCEPT !.pc = "idle", !.result = "ok"]
    ELSE [r EXCEPT !.pc = "profile", !.idx = r.idx + 1]

\* getCurrentHeatingStatus fails on every attempt: the per-user catch logs
\* the error and the loop goes on to the next profile
QueryStatusFails ==
    /\ run.pc = "profile"
    /\ ~run.testMode
    /\ run' = NextProfile(run)
    /\ UNCHANGED mutationVars
    /\ UNCHANGED <<win, stg, profiles, schedules, device, clock, runs, visits, cmds, issued>>
    /\ UNCHANGED <<foundOff, requestVars>>

\* A command handed to retryApiCall: what was sent, the status it answers
\* (observed), the last setLevel that had reached the device before it
\* (prior), and whether an attempt went through (ok)
Command(u, userNow, d, hs, prior, ok) ==
    [user |-> u, kind |-> d.kind, level |-> d.level, duration |-> d.duration,
     at |-> userNow, observed |-> hs, prior |-> prior, ok |-> ok]

\* A decision taken for a profile: the user's local now, the status it was
\* taken on, and the stage and target level if the sleep stage was resolved
Visit(u, userNow, d, hs) ==
    [user |-> u, at |-> userNow, observed |-> hs, evaluated |-> d.evaluated,
     stage |-> d.stage, target |-> d.target, failed |-> d.kind = "error"]

\* The pass finds the bed off in a heating stage although an earlier setLevel
\* had turned it on, for the first time: somebody turned it off by hand, or
\* the hold ran out
FoundOffNow(d, hs, prior, found) ==
    /\ d.evaluated /\ d.target.has
    /\ ~hs.isHeating
    /\ prior.has
    /\ ~found.has

\* One pass of the loop body whose status query succeeds (or is replaced by
\* the synthetic status in test mode): the mode branches and the command
\* they issue.  A command that fails on every attempt is caught by the
\* per-user catch.
ProcessProfile ==
    /\ run.pc = "profile"
    /\ LET u       == run.idx
           tp      == profiles[u]
           userNow == toUserLocal(run.now, tp.tzOffset)
           hs      == IF run.testMode THEN NotHeating ELSE device[u]
           d       == Decision(tp, userNow, hs)
       IN  /\ visits' = visits \cup {Visit(u, userNow, d, hs)}
           /\ foundOff' = IF ~run.testMode /\ FoundOffNow(d, hs, issued[u], foundOff[u])
                          THEN [foundOff EXCEPT ![u] = [has |-> TRUE, at |-> userNow]]
                          ELSE foundOff
           /\ IF d.kind \in {"setLevel", "turnOff"} /\ ~run.testMode
              THEN \E ok \in BOOLEAN :
                     /\ cmds' = cmds \cup {Command(u, userNow, d, hs, issued[u], ok)}
                     /\ device' = IF ~ok THEN device
                                  ELSE IF d.kind = "setLevel"
                                  THEN [device EXCEPT ![u] = Heating(d.level)]
                                  ELSE [device EXCEPT ![u] = NotHeating]
                     /\ issued' = IF ok /\ d.kind = "setLevel"
                                  THEN [issued EXCEPT ![u] = [has |-> TRUE, at |-> userNow,
                                                              level |-> d.level]]
                                  ELSE issued
              ELSE UNCHANGED <<cmds, device, issued>>
    /\ run' = NextProfile(run)
    /\ UNCHANGED mutationVars
    /\ UNCHANGED <<win, stg, profiles, schedules, clock, runs>>
    /\ UNCHANGED requestVars

\* Between two runs the user changes the bed by hand, or a hold runs out
ManualSet ==
    /\ run.pc = "idle"
    /\ runs > 0 /\ runs < MaxRuns
    /\ \E u \in Users, st \in ManualStates :
          /\ st # device[u]
          /\ device' = [device EXCEPT ![u] = st]
    /\ UNCHANGED mutationVars
    /\ UNCHANGED <<win, stg, profiles, schedules, clock, runs, run, visits, cmds, issued>>
    /\ UNCHANGED <<foundOff, requestVars>>

Next ==
    \/ StartLiveRun
    \/ StartTestRun
    \/ FetchProfiles
    \/ FetchProfilesFails
    \/ QueryStatusFails
    \/ ProcessProfile
    \/ ManualSet

Spec == Init /\ [][Next]_vars

----------------------------------------------------------------------------
(* retryApiCall *)

\* Largest retries argument tried
MaxRetries == 4

\* retries = 3
DefaultRetries == 3

\* setTimeout(resolve, 1000 * ...)
RetryBaseDelayMs == 1000

\* What apiCall can resolve to, and what it can reject with
ApiResults == { "r1", "r2" }

ApiErrors == { "e1", "e2" }

Resolved(value) == [ok |-> TRUE, value |-> value]

Rejected(error) == [ok |-> FALSE, value |-> error]

\* The error thrown after the loop
NeverHappens == Rejected("This should never happen")

\* Mutant: every delay is the base delay
DelayMs_Constant(i) == RetryBaseDelayMs

\* 1000 * Math.pow(2, i)
DelayMs(i) == RetryBaseDelayMs * 2^i

\* Mutant: the last attempt is taken to be one further
IsLastAttempt_OneMore(i, retries) == i = retries

\* i === retries - 1
IsLastAttempt(i, retries) == i = retries - 1

InitRetry ==
    /\ win = WinIdle /\ stg = StgIdle /\ MutationsAtRest
    /\ NoRunYet /\ NoRequestServed
    /\ \E retries \in 1..MaxRetries :
          rt = [state |-> "calling", retries |-> retries, i |-> 0, attempts |-> <<>>,
                delays |-> <<>>, result |-> "none"]

\* Mutant: the loop goes on calling after apiCall has resolved
RetryAttempt_CallsOn ==
    /\ rt.state = "calling"
    /\ rt.i < rt.retries
    /\ \E outcome \in { Resolved(v) : v \in ApiResults } \cup
                       { Rejected(e) : e \in ApiErrors } :
          rt' = [rt EXCEPT
                   !.attempts = Append(@, outcome),
                   !.state = IF IsLastAttempt(rt.i, rt.retries)
                             THEN (IF outcome.ok THEN "returned" ELSE "thrown")
                             ELSE "waiting",
                   !.result = IF outcome.ok \/ IsLastAttempt(rt.i, rt.retries)
                              THEN outcome ELSE @]
    /\ UNCHANGED mutationVars
    /\ UNCHANGED <<win, stg, profiles, schedules, device, clock, runs, run, visits,
                   cmds, issued, foundOff, users, req, calls, logs>>

\* One pass of the loop body up to the delay: apiCall resolves and its value
\* is returned, or it rejects and the error is thrown on the last attempt
RetryAttempt ==
    /\ rt.state = "calling"
    /\ rt.i < rt.retries
    /\ \E outcome \in { Resolved(v) : v \in ApiResults } \cup
                       { Rejected(e) : e \in ApiErrors } :
          rt' = [rt EXCEPT
                   !.attempts = Append(@, outcome),
                   !.state = IF outcome.ok THEN "returned"
                             ELSE IF IsLastAttempt(rt.i, rt.retries) THEN "thrown"
                             ELSE "waiting",
                   !.result = IF outcome.ok \/ IsLastAttempt(rt.i, rt.retries)
                              THEN outcome ELSE @]
    /\ UNCHANGED mutationVars
    /\ UNCHANGED <<win, stg, profiles, schedules, device, clock, runs, run, visits,
                   cmds, issued, foundOff, users, req, calls, logs>>

\* Mutant: the loop does not count its passes
NextAttempt_Same(i) == i + 0

\* i++
NextAttempt(i) == i + 1

\* The delay after a failed attempt is over: i++, and the loop goes on or
\* ends
RetryDelay ==
    /\ rt.state = "waiting"
    /\ rt' = [rt EXCEPT
                !.delays = Append(@, DelayMs(rt.i)),
                !.i = NextAttempt(@),
                !.state = IF NextAttempt(rt.i) < rt.retries THEN "calling" ELSE "thrown",
                !.result = IF NextAttempt(rt.i) < rt.retries THEN @ ELSE NeverHappens]
    /\ UNCHANGED mutationVars
    /\ UNCHANGED <<win, stg, profiles, schedules, device, clock, runs, run, visits,
                   cmds, issued, foundOff, users, req, calls, logs>>

NextRetry == RetryAttempt \/ RetryDelay

SpecRetry == InitRetry /\ [][NextRetry]_vars

----------------------------------------------------------------------------
(* GET: one request, and the run it starts *)

HttpOk == 200

HttpUnauthorized == 401

HttpServerError == 500

\* A users row whose token ran out before every run
ExpiredToken == [accessToken |-> 1, refreshToken |-> 1, expiresAt |-> 0]

\* What obtainFreshAccessToken resolves to: another token, not yet expired
FreshToken(token) ==
    [accessToken |-> token.accessToken + 1, refreshToken |-> token.refreshToken + 1,
     expiresAt |-> FarFuture]

\* Texts of the testTime parameter: empty, "0", not a number, and the
\* instants of day 1, 21:00 and day 2, 07:10
TestTimeTexts ==
    { <<>>, <<"0">>, <<"x">>, <<"2", "7", "0", "0">>, <<"3", "3", "1", "0">> }

\* Wall-clock instants at which the request arrives
RequestTimes == { At(1, 21, 0), At(1, 23, 30), At(2, 7, 10) }

Digits == <<"0", "1", "2", "3", "4", "5", "6", "7", "8", "9">>

IsDigits(text) == \A n \in DOMAIN text : \E d \in DOMAIN Digits : Digits[d] = text[n]

DigitValue(char) == (CHOOSE d \in DOMAIN Digits : Digits[d] = char) - 1

RECURSIVE DecimalValue(_)
DecimalValue(text) ==
    IF text = <<>> THEN 0
    ELSE 10 * DecimalValue(SubSeq(text, 1, Len(text) - 1)) + DigitValue(text[Len(text)])

\* Number(text): 0 for the empty string, NaN for what is not a number
ToNumber(text) == IF IsDigits(text) THEN DecimalValue(text) ELSE NaN

\* if (testTimeParam): null and the empty string are falsy
Truthy(param) == param.present /\ param.text # <<>>

\* Mutant: the token is refreshed in test runs too
NeedsRefresh_AlsoInTest(testMode, now, expiresAt) == now > expiresAt

\* !testMode?.enabled && now.getTime() > token.eightExpiresAtPosix
NeedsRefresh(testMode, now, expiresAt) == ~testMode /\ now > expiresAt

\* Mutant: GET answers success whatever adjustTemperature did
ResponseStatus_AlwaysOk(result) == IF result = "ok" THEN HttpOk ELSE HttpOk

\* Response.json({ success: true }), or the 500 of the catch
ResponseStatus(result) == IF result = "ok" THEN HttpOk ELSE HttpServerError

\* Mutant: the per-user catch rethrows
AfterUserError_Rethrow(r) == [r EXCEPT !.pc = "idle", !.result = "error"]

\* The per-user catch logs the error, and the loop goes on
AfterUserError(r) == NextProfile(r)

Call(api, u, token, ok) == [api |-> api, user |-> u, token |-> token, ok |-> ok]

\* Lines of the console: level, the user the line is about (0: none), text
Completed(u) == [level |-> "log", user |-> u, text |-> "Successfully completed"]

UserError(u) == [level |-> "error", user |-> u, text |-> "Error adjusting temperature"]

FetchError == [level |-> "error", user |-> 0, text |-> "Error fetching user profiles"]

CronError == [level |-> "error", user |-> 0, text |-> "Error in temperature adjustment cron job"]

InitRequest ==
    /\ win = WinIdle /\ stg = StgIdle /\ MutationsAtRest /\ rt = RtIdle
    /\ \E focus \in Users, cfg \in StoredConfigs, st \in ManualStates :
          /\ profiles = [u \in Users |-> IF u = focus THEN cfg[1] ELSE DefaultConfig[1]]
          /\ schedules = [u \in Users |-> IF u = focus THEN cfg[2] ELSE DefaultConfig[2]]
          /\ device = [u \in Users |-> IF u = focus THEN st ELSE NotHeating]
    /\ users \in [Users -> {ValidToken, ExpiredToken}]
    /\ clock \in RequestTimes
    /\ runs = 0 /\ run = Idle
    /\ visits = {} /\ cmds = {}
    /\ issued = [u \in Users |-> NeverIssued]
    /\ foundOff = [u \in Users |-> NeverFound]
    /\ \E header \in AuthHeaders,
          testTime \in {Absent} \cup { Present(text) : text \in TestTimeTexts } :
          req = [state |-> "received", header |-> header, testTime |-> testTime,
                 status |-> 0]
    /\ calls = <<>>
    /\ logs = <<>>

\* The authorization header is not the bearer form of the secret
GetUnauthorized ==
    /\ req.state = "received"
    /\ ~Authorized(req.header)
    /\ req' = [req EXCEPT !.state = "responded", !.status = HttpUnauthorized]
    /\ UNCHANGED mutationVars
    /\ UNCHANGED <<win, stg, profiles, schedules, device, clock, runs, run, visits,
                   cmds, issued, foundOff, users, calls, logs, rt>>

\* testTime is truthy but not a number: the throw is caught by GET
GetInvalidTestTime ==
    /\ req.state = "received"
    /\ Authorized(req.header)
    /\ Truthy(req.testTime)
    /\ isNaN(ToNumber(req.testTime.text))
    /\ req' = [req EXCEPT !.state = "responded", !.status = HttpServerError]
    /\ logs' = Append(logs, CronError)
    /\ UNCHANGED mutationVars
    /\ UNCHANGED <<win, stg, profiles, schedules, device, clock, runs, run, visits,
                   cmds, issued, foundOff, users, calls, rt>>

\* testTime is truthy and a number: adjustTemperature({ enabled: true, ... })
GetTestRun ==
    /\ req.state = "received"
    /\ Authorized(req.header)
    /\ Truthy(req.testTime)
    /\ ~isNaN(ToNumber(req.testTime.text))
    /\ req' = [req EXCEPT !.state = "running"]
    /\ run' = [pc |-> "fetch", testMode |-> TRUE, now |-> ToNumber(req.testTime.text),
               idx |-> 0, id |-> runs + 1, result |-> "none"]
    /\ runs' = runs + 1
    /\ UNCHANGED mutationVars
    /\ UNCHANGED <<win, stg, profiles, schedules, device, clock, visits, cmds, issued,
                   foundOff, users, calls, logs, rt>>

\* testTime is falsy: adjustTemperature()
GetLiveRun ==
    /\ req.state = "received"
    /\ Authorized(req.header)
    /\ ~Truthy(req.testTime)
    /\ req' = [req EXCEPT !.state = "running"]
    /\ run' = [pc |-> "fetch", testMode |-> FALSE, now |-> clock, idx |-> 0,
               id |-> runs + 1, result |-> "none"]
    /\ runs' = runs + 1
    /\ UNCHANGED mutationVars
    /\ UNCHANGED <<win, stg, profiles, schedules, device, clock, visits, cmds, issued,
                   foundOff, users, calls, logs, rt>>

\* The profile query throws: the outer catch logs the error and rethrows it
FetchProfilesThrows ==
    /\ run.pc = "fetch"
    /\ req.state = "running"
    /\ run' = [run EXCEPT !.pc = "idle", !.result = "error"]
    /\ logs' = Append(logs, FetchError)
    /\ UNCHANGED mutationVars
    /\ UNCHANGED <<win, stg, profiles, schedules, device, clock, runs, visits, cmds,
                   issued, foundOff, users, req, calls, rt>>

\* Mutant: the calls that follow a refresh still carry the stored token
TokenInUse_Stored(stored, refresh, refreshOk) ==
    IF refresh /\ refreshOk THEN stored ELSE stored

\* token = await obtainFreshAccessToken(...), if the stored one ran out
TokenInUse(stored, refresh, refreshOk) ==
    IF refresh /\ refreshOk THEN FreshToken(stored) ELSE stored

\* The whole body of the per-user loop: the token is refreshed and saved if
\* it ran out, the status is queried, the mode branches decide, the command
\* is sent.  Each call can fail (a device call: on every attempt of
\* retryApiCall), which ends the pass in the per-user catch.
AdjustProfile ==
    /\ run.pc = "profile"
    /\ req.state = "running"
    /\ \E refreshOk \in BOOLEAN, saveOk \in BOOLEAN, statusOk \in BOOLEAN,
          commandOk \in BOOLEAN :
        LET u         == run.idx
            tp        == profiles[u]
            refresh   == NeedsRefresh(run.testMode, run.now, users[u].expiresAt)
            save      == refresh /\ refreshOk
            refreshed == ~refresh \/ (refreshOk /\ saveOk)
            token     == TokenInUse(users[u], refresh, refreshOk)
            userNow   == toUserLocal(run.now, tp.tzOffset)
            query     == refreshed /\ ~run.testMode
            hs        == IF run.testMode THEN NotHeating ELSE device[u]
            decided   == refreshed /\ (run.testMode \/ statusOk)
            d         == Decision(tp, userNow, hs)
            command   == decided /\ d.kind \in {"setLevel", "turnOff"} /\ ~run.testMode
            failed    == ~decided \/ d.kind = "error" \/ (command /\ ~commandOk)
        IN  /\ refresh \/ refreshOk
            /\ save \/ saveOk
            /\ query \/ statusOk
            /\ command \/ commandOk
            /\ users' = IF save /\ saveOk THEN [users EXCEPT ![u] = token] ELSE users
            /\ calls' = calls
                 \o (IF refresh
                     THEN <<Call("refresh", u, users[u].refreshToken, refreshOk)>>
                     ELSE <<>>)
                 \o (IF save THEN <<Call("saveToken", u, token.accessToken, saveOk)>>
                             ELSE <<>>)
                 \o (IF query THEN <<Call("status", u, token.accessToken, statusOk)>>
                              ELSE <<>>)
                 \o (IF command THEN <<Call(d.kind, u, token.accessToken, commandOk)>>
                                ELSE <<>>)
            /\ visits' = IF decided THEN visits \cup {Visit(u, userNow, d, hs)} ELSE visits
            /\ cmds' = IF command
                       THEN cmds \cup {Command(u, userNow, d, hs, issued[u], commandOk)}
                       ELSE cmds
            /\ device' = IF command /\ commandOk
                         THEN [device EXCEPT ![u] = IF d.kind = "setLevel"
                                                    THEN Heating(d.level) ELSE NotHeating]
                         ELSE device
            /\ issued' = IF command /\ commandOk /\ d.kind = "setLevel"
                         THEN [issued EXCEPT ![u] = [has |-> TRUE, at |-> userNow,
                                                     level |-> d.level]]
                         ELSE issued
            /\ logs' = Append(logs, IF failed THEN UserError(u) ELSE Completed(u))
            /\ run' = IF failed THEN AfterUserError(run) ELSE NextProfile(run)
    /\ UNCHANGED mutationVars
    /\ UNCHANGED <<win, stg, profiles, schedules, clock, runs, foundOff, req, rt>>

\* Mutant: GET answers 500 if the run has logged an error for a user
GetRespond_SurfacesUserErrors ==
    /\ req.state = "running"
    /\ run.pc = "idle"
    /\ req' = [req EXCEPT
                 !.state = "responded",
                 !.status = IF \E n \in DOMAIN logs : logs[n].level = "error"
                            THEN HttpServerError ELSE ResponseStatus(run.result)]
    /\ logs' = IF run.result = "ok" THEN logs ELSE Append(logs, CronError)
    /\ UNCHANGED mutationVars
    /\ UNCHANGED <<win, stg, profiles, schedules, device, clock, runs, run, visits,
                   cmds, issued, foundOff, users, calls, rt>>

\* adjustTemperature has returned or thrown: GET answers
GetRespond ==
    /\ req.state = "running"
    /\ run.pc = "idle"
    /\ req' = [req EXCEPT !.state = "responded", !.status = ResponseStatus(run.result)]
    /\ logs' = IF run.result = "ok" THEN logs ELSE Append(logs, CronError)
    /\ UNCHANGED mutationVars
    /\ UNCHANGED <<win, stg, profiles, schedules, device, clock, runs, run, visits,
                   cmds, issued, foundOff, users, calls, rt>>

NextRequest ==
    \/ GetUnauthorized
    \/ GetInvalidTestTime
    \/ GetTestRun
    \/ GetLiveRun
    \/ FetchProfiles
    \/ FetchProfilesThrows
    \/ AdjustProfile
    \/ GetRespond

SpecRequest == InitRequest /\ [][NextRequest]_vars

----------------------------------------------------------------------------
(* One request, over rows that hold what the forms would have refused *)

\* "24:00", "21:60", "ab:00" and "21"
MalformedTimes == { HM(24, 0), HM(21, 60), <<NaN, 0, 0>>, <<21>> }

\* Rows with a malformed time of day: in the column the mode of the row
\* reads, and in a column it does not read
MalformedConfigs ==
    { <<SettingsRow(TRUE, t, 10, 0, 0), NoSchedule>> : t \in MalformedTimes }
    \cup { <<CycleRow(HM(24, 0), HM(7, 0), 20, 10, 30, TRUE), NoSchedule>>,
           <<CycleRow(HM(20, 0), <<7>>, 20, 10, 30, TRUE), NoSchedule>>,
           <<[SettingsRow(TRUE, HM(21, 0), 10, 0, 0) EXCEPT !.bedTime = HM(21, 60)],
             NoSchedule>>,
           <<[CycleRow(HM(20, 0), HM(7, 0), 20, 10, 30, TRUE)
                EXCEPT !.preheatTime = <<NaN, 0, 0>>], NoSchedule>> }

\* Rows with a level outside the range of the forms
OutOfRangeConfigs ==
    { <<SettingsRow(TRUE, HM(21, 0), 11, 0, 0), NoSchedule>>,
      <<SettingsRow(TRUE, HM(23, 30), -11, 0, 0), NoSchedule>>,
      <<CycleRow(HM(20, 0), HM(7, 0), 110, 10, 30, TRUE), NoSchedule>> }

InitSettings ==
    /\ win = WinIdle /\ stg = StgIdle /\ MutationsAtRest /\ rt = RtIdle
    /\ \E focus \in Users, cfg \in MalformedConfigs \cup OutOfRangeConfigs,
          st \in ManualStates :
          /\ profiles = [u \in Users |-> IF u = focus THEN cfg[1] ELSE DefaultConfig[1]]
          /\ schedules = [u \in Users |-> IF u = focus THEN cfg[2] ELSE DefaultConfig[2]]
          /\ device = [u \in Users |-> IF u = focus THEN st ELSE NotHeating]
    /\ users = [u \in Users |-> ValidToken]
    /\ clock \in RequestTimes
    /\ runs = 0 /\ run = Idle
    /\ visits = {} /\ cmds = {}
    /\ issued = [u \in Users |-> NeverIssued]
    /\ foundOff = [u \in Users |-> NeverFound]
    /\ \E header \in AuthHeaders,
          testTime \in {Absent} \cup { Present(text) : text \in TestTimeTexts } :
          req = [state |-> "received", header |-> header, testTime |-> testTime,
                 status |-> 0]
    /\ calls = <<>>
    /\ logs = <<>>

SpecSettings == InitSettings /\ [][NextRequest]_vars

----------------------------------------------------------------------------
(* One request, the run taken attempt by attempt *)

\* Rows of the run: the default preheat-only row, and a fixed cycle
AttemptConfigs ==
    { DefaultConfig,
      <<CycleRow(HM(22, 0), HM(7, 0), 20, 10, 30, TRUE), NoSchedule>> }

\* Wall-clock instants at which the request arrives
AttemptTimes == { At(1, 21, 0), At(2, 7, 10) }

\* retryApiCall(() => ...) is entered with the default retries
LoopEntered ==
    [state |-> "calling", retries |-> DefaultRetries, i |-> 0, attempts |-> <<>>,
     delays |-> <<>>, result |-> "none"]

\* retryApiCall has returned or thrown
Settled(r) == r.state \in {"returned", "thrown"}

\* Mutant: the pass goes on to the branches although the query threw
StatusResolved_Always(r) == r.state \in {"returned", "thrown"}

\* heatingStatus = await retryApiCall(...) yields a status
StatusResolved(r) == r.state = "returned"

InitAttempts ==
    /\ win = WinIdle /\ stg = StgIdle /\ MutationsAtRest /\ rt = RtIdle
    /\ \E focus \in Users, cfg \in AttemptConfigs, st \in ManualStates,
          token \in {ValidToken, ExpiredToken} :
          /\ profiles = [u \in Users |-> IF u = focus THEN cfg[1] ELSE DefaultConfig[1]]
          /\ schedules = [u \in Users |-> IF u = focus THEN cfg[2] ELSE DefaultConfig[2]]
          /\ device = [u \in Users |-> IF u = focus THEN st ELSE NotHeating]
          /\ users = [u \in Users |-> IF u = focus THEN token ELSE ValidToken]
    /\ clock \in AttemptTimes
    /\ runs = 0 /\ run = Idle
    /\ visits = {} /\ cmds = {}
    /\ issued = [u \in Users |-> NeverIssued]
    /\ foundOff = [u \in Users |-> NeverFound]
    /\ \E testTime \in {Absent, Present(<<"2", "7", "0", "0">>)} :
          req = [state |-> "received", header |-> Present(BearerForm(CronSecret)),
                 testTime |-> testTime, status |-> 0]
    /\ calls = <<>>
    /\ logs = <<>>

\* A pass of a test run: no call, the branches decide on the synthetic status
TestProfile ==
    /\ run.pc = "profile"
    /\ req.state = "running"
    /\ run.testMode
    /\ LET u       == run.idx
           tp      == profiles[u]
           userNow == toUserLocal(run.now, tp.tzOffset)
           d       == Decision(tp, userNow, NotHeating)
       IN  /\ visits' = visits \cup {Visit(u, userNow, d, NotHeating)}
           /\ logs' = Append(logs, IF d.kind = "error" THEN UserError(u)
                                                       ELSE Completed(u))
           /\ run' = IF d.kind = "error" THEN AfterUserError(run) ELSE NextProfile(run)
    /\ UNCHANGED mutationVars
    /\ UNCHANGED <<win, stg, profiles, schedules, device, clock, runs, cmds, issued,
                   foundOff, users, req, calls, rt>>

\* A pass of a live run up to the status query: the token is refreshed and
\* saved if it ran out, and retryApiCall is entered for the query
BeginProfile ==
    /\ run.pc = "profile"
    /\ req.state = "running"
    /\ ~run.testMode
    /\ \E refreshOk \in BOOLEAN, saveOk \in BOOLEAN :
        LET u         == run.idx
            refresh   == NeedsRefresh(run.testMode, run.now, users[u].expiresAt)
            save      == refresh /\ refreshOk
            refreshed == ~refresh \/ (refreshOk /\ saveOk)
            token     == TokenInUse(users[u], refresh, refreshOk)
        IN  /\ refresh \/ refreshOk
            /\ save \/ saveOk
            /\ users' = IF save /\ saveOk THEN [users EXCEPT ![u] = token] ELSE users
            /\ calls' = calls
                 \o (IF refresh
                     THEN <<Call("refresh", u, users[u].refreshToken, refreshOk)>>
                     ELSE <<>>)
                 \o (IF save THEN <<Call("saveToken", u, token.accessToken, saveOk)>>
                             ELSE <<>>)
            /\ logs' = IF refreshed THEN logs ELSE Append(logs, UserError(u))
            /\ run' = IF refreshed THEN [run EXCEPT !.pc = "status"]
                                   ELSE AfterUserError(run)
            /\ rt' = IF refreshed THEN LoopEntered ELSE rt
    /\ UNCHANGED mutationVars
    /\ UNCHANGED <<win, stg, profiles, schedules, device, clock, runs, visits, cmds,
                   issued, foundOff, req>>

\* retryApiCall has settled for the status query: if it threw, the per-user
\* catch ends the pass; otherwise the branches decide, and retryApiCall is
\* entered for the command if there is one
StatusSettled ==
    /\ run.pc = "status"
    /\ Settled(rt)
    /\ LET u       == run.idx
           tp      == profiles[u]
           userNow == toUserLocal(run.now, tp.tzOffset)
           hs      == device[u]
           d       == Decision(tp, userNow, hs)
           command == d.kind \in {"setLevel", "turnOff"}
       IN  /\ calls' = Append(calls, Call("status", u, users[u].accessToken,
                                          rt.state = "returned"))
           /\ IF StatusResolved(rt)
              THEN /\ visits' = visits \cup {Visit(u, userNow, d, hs)}
                   /\ logs' = IF command THEN logs
                              ELSE Append(logs, IF d.kind = "error" THEN UserError(u)
                                                                    ELSE Completed(u))
                   /\ run' = IF command THEN [run EXCEPT !.pc = "command"]
                             ELSE IF d.kind = "error" THEN AfterUserError(run)
                             ELSE NextProfile(run)
                   /\ rt' = IF command THEN LoopEntered ELSE RtIdle
              ELSE /\ visits' = visits
                   /\ logs' = Append(logs, UserError(u))
                   /\ run' = AfterUserError(run)
                   /\ rt' = RtIdle
    /\ UNCHANGED mutationVars
    /\ UNCHANGED <<win, stg, profiles, schedules, device, clock, runs, cmds, issued,
                   foundOff, users, req>>

\* retryApiCall has settled for the command the branches decided on the
\* status of the pass
CommandSettled ==
    /\ run.pc = "command"
    /\ Settled(rt)
    /\ LET u       == run.idx
           tp      == profiles[u]
           userNow == toUserLocal(run.now, tp.tzOffset)
           hs      == device[u]
           d       == Decision(tp, userNow, hs)
           ok      == rt.state = "returned"
       IN  /\ calls' = Append(calls, Call(d.kind, u, users[u].accessToken, ok))
           /\ cmds' = cmds \cup {Command(u, userNow, d, hs, issued[u], ok)}
           /\ device' = IF ok
                        THEN [device EXCEPT ![u] = IF d.kind = "setLevel"
                                                   THEN Heating(d.level) ELSE NotHeating]
                        ELSE device
           /\ issued' = IF ok /\ d.kind = "setLevel"
                        THEN [issued EXCEPT ![u] = [has |-> TRUE, at |-> userNow,
                                                    level |-> d.level]]
                        ELSE issued
           /\ logs' = Append(logs, IF ok THEN Completed(u) ELSE UserError(u))
           /\ run' = IF ok THEN NextProfile(run) ELSE AfterUserError(run)
           /\ rt' = RtIdle
    /\ UNCHANGED mutationVars
    /\ UNCHANGED <<win, stg, profiles, schedules, clock, runs, visits, foundOff,
                   users, req>>

NextAttempts ==
    \/ GetTestRun
    \/ GetLiveRun
    \/ FetchProfiles
    \/ FetchProfilesThrows
    \/ TestProfile
    \/ BeginProfile
    \/ RetryAttempt
    \/ RetryDelay
    \/ StatusSettled
    \/ CommandSettled
    \/ GetRespond

SpecAttempts == InitAttempts /\ [][NextAttempts]_vars

\* Every call returns or fails, and the handler runs on
FairAttempts == SpecAttempts /\ WF_vars(NextAttempts)

----------------------------------------------------------------------------
(* Three runs in one night, the bed being changed by hand between them *)

\* A user whose fixed-cycle columns and active sleep profile say the same:
\* 20 from 22:00, off at 07:00
AlignedConfig ==
    <<[CycleRow(HM(22, 0), HM(7, 0), 20, 20, 20, TRUE) EXCEPT !.activeProfileId = 1],
      NightSchedule>>

\* Instants of the night, all of them inside the heating stages
NightRunTimes == { At(1, 23, 30), At(2, 0, 5), At(2, 1, 0) }

InitNight ==
    /\ win = WinIdle /\ stg = StgIdle /\ MutationsAtRest
    /\ \E focus \in Users :
          /\ profiles = [u \in Users |-> IF u = focus THEN AlignedConfig[1]
                                                     ELSE DefaultConfig[1]]
          /\ schedules = [u \in Users |-> IF u = focus THEN AlignedConfig[2]
                                                      ELSE DefaultConfig[2]]
    /\ device = [u \in Users |-> NotHeating]
    /\ clock = 0 /\ runs = 0 /\ run = Idle
    /\ visits = {} /\ cmds = {}
    /\ issued = [u \in Users |-> NeverIssued]
    /\ foundOff = [u \in Users |-> NeverFound]
    /\ RequestsAtRest

\* GET without testTime, at an instant of the night
StartNightRun ==
    /\ run.pc = "idle"
    /\ runs < MaxRuns + 1
    /\ \E t \in NightRunTimes :
          /\ t > clock
          /\ clock' = t
          /\ run' = [pc |-> "fetch", testMode |-> FALSE, now |-> t, idx |-> 0,
                     id |-> runs + 1, result |-> "none"]
    /\ runs' = runs + 1
    /\ visits' = {} /\ cmds' = {}
    /\ UNCHANGED mutationVars
    /\ UNCHANGED <<win, stg, profiles, schedules, device, issued>>
    /\ UNCHANGED <<foundOff, requestVars>>

\* Between two runs of the night a user changes the bed by hand
NightManualSet ==
    /\ run.pc = "idle"
    /\ runs > 0 /\ runs < MaxRuns + 1
    /\ \E u \in Users, st \in ManualStates :
          /\ st # device[u]
          /\ device' = [device EXCEPT ![u] = st]
    /\ UNCHANGED mutationVars
    /\ UNCHANGED <<win, stg, profiles, schedules, clock, runs, run, visits, cmds, issued>>
    /\ UNCHANGED <<foundOff, requestVars>>

NextNight ==
    \/ StartNightRun
    \/ FetchProfiles
    \/ FetchProfilesFails
    \/ QueryStatusFails
    \/ ProcessProfile
    \/ NightManualSet

SpecNight == InitNight /\ [][NextNight]_vars

----------------------------------------------------------------------------
(* isInTimeWindow and getCurrentSleepStage applied to enumerated inputs *)

\* The stored rows while a function is tried on its own
EngineAtRest == NoRunYet /\ RequestsAtRest

WindowInstants == 0..WinMax

InitWindow ==
    /\ \E n \in WindowInstants, s \in WindowInstants, e \in WindowInstants :
          win = [now |-> n, start |-> s, end |-> e, done |-> FALSE, result |-> FALSE]
    /\ stg = StgIdle
    /\ EngineAtRest /\ MutationsAtRest

EvalWindow ==
    /\ ~win.done
    /\ win' = [win EXCEPT !.done = TRUE,
                          !.result = isInTimeWindow(win.now, win.start, win.end)]
    /\ UNCHANGED mutationVars
    /\ UNCHANGED <<stg, profiles, schedules, device, clock, runs, run, visits, cmds,
                   issued>>
    /\ UNCHANGED <<foundOff, requestVars>>

SpecWindow == InitWindow /\ [][EvalWindow]_vars

\* Bed and wake-up times the stage resolver is tried on
StageTimes ==
    { HM(22, 0), HM(7, 0), HM(6, 0), HM(22, 20), HM(21, 10), HM(0, 30), HM(23, 50) }

\* Every fifth minute of day 2
StageNows == { At(2, 0, 0) + 5 * k : k \in 0..287 }

StageLevels == [initial |-> 20, mid |-> 10, final |-> 30]

InitStage ==
    /\ \E n \in StageNows, b \in StageTimes, w \in StageTimes :
          stg = [now |-> n, bedTime |-> b, wakeupTime |-> w, done |-> FALSE,
                 result |-> StageResult("inactive", NoLevel)]
    /\ win = WinIdle
    /\ EngineAtRest /\ MutationsAtRest

EvalStage ==
    /\ ~stg.done
    /\ stg' = [stg EXCEPT !.done = TRUE,
                          !.result = getCurrentSleepStage(stg.now, stg.bedTime,
                                        stg.wakeupTime, StageLevels.initial,
                                        StageLevels.mid, StageLevels.final)]
    /\ UNCHANGED mutationVars
    /\ UNCHANGED <<win, profiles, schedules, device, clock, runs, run, visits, cmds,
                   issued>>
    /\ UNCHANGED <<foundOff, requestVars>>

SpecStage == InitStage /\ [][EvalStage]_vars

----------------------------------------------------------------------------
(* Two live runs under way at once *)

\* The runs: the one the periodic trigger started through GET, and the one
\* a settings or profile mutation started
OverlapRuns == { "cron", "mutation" }

\* No row is held
NoToken == [accessToken |-> 0, refreshToken |-> 0, expiresAt |-> 0]

\* A run not started yet: no rows fetched, no token in hand
RunAtRest == [pc |-> "idle", idx |-> 0, result |-> "none", rows |-> <<>>,
              token |-> NoToken]

\* adjustTemperature has returned
Finished(r) == r.pc = "idle" /\ r.result # "none"

\* What the token service resolves a refresh to: a token it has not issued
\* before
IssuedToken(presented, issuedSoFar) ==
    IF issuedSoFar = <<>> THEN FreshToken(presented)
    ELSE FreshToken(issuedSoFar[Len(issuedSoFar)])

InitOverlap ==
    /\ win = WinIdle /\ stg = StgIdle /\ rt = RtIdle
    /\ profiles = [u \in Users |-> DefaultConfig[1]]
    /\ schedules = [u \in Users |-> DefaultConfig[2]]
    /\ device \in [Users -> ManualStates]
    /\ users \in [Users -> {ValidToken, ExpiredToken}]
    /\ clock \in AttemptTimes
    /\ runs = 0 /\ run = Idle
    /\ visits = {} /\ cmds = {}
    /\ issued = [u \in Users |-> NeverIssued]
    /\ foundOff = [u \in Users |-> NeverFound]
    /\ req = NoRequest /\ calls = <<>> /\ logs = <<>>
    /\ overlap = [r \in OverlapRuns |-> RunAtRest]
    /\ service = [u \in Users |-> <<>>]
    /\ sleepRows = {} /\ mutations = NoMutation

\* adjustTemperature() is called and its profile query returns the rows as
\* they are stored at that moment
OverlapFetch(r) ==
    /\ overlap[r] = RunAtRest
    /\ overlap' = [overlap EXCEPT ![r] = [pc |-> "profile", idx |-> 1,
                                          result |-> "none", rows |-> users,
                                          token |-> users[1]]]
    /\ UNCHANGED <<win, stg, profiles, schedules, device, clock, runs, run, visits,
                   cmds, issued, foundOff, requestVars, service, sleepRows, mutations>>

\* The pass to go on with after the pass of a user has ended: its token is
\* the one of the fetched row
NextPass(o) ==
    LET next == NextProfile(o)
    IN  IF next.pc = "profile"
        THEN [next EXCEPT !.token = o.rows[next.idx]]
        ELSE [next EXCEPT !.rows = <<>>, !.token = NoToken]

\* The token of the fetched row has run out: obtainFreshAccessToken is
\* answered by the token service, or rejects and the per-user catch ends
\* the pass
OverlapRefresh(r) ==
    /\ overlap[r].pc = "profile"
    /\ NeedsRefresh(FALSE, clock, overlap[r].token.expiresAt)
    /\ LET u == overlap[r].idx
       IN  \E refreshOk \in BOOLEAN :
             IF refreshOk
             THEN LET token == IssuedToken(overlap[r].token, service[u])
                  IN  /\ service' = [service EXCEPT ![u] = Append(@, token)]
                      /\ overlap' = [overlap EXCEPT ![r].pc = "save",
                                                     ![r].token = token]
             ELSE /\ service' = service
                  /\ overlap' = [overlap EXCEPT ![r] = NextPass(@)]
    /\ UNCHANGED <<win, stg, profiles, schedules, device, clock, runs, run, visits,
                   cmds, issued, foundOff, requestVars, sleepRows, mutations>>

\* db.update(users).set({ ...token }) is carried out
OverlapSave(r) ==
    /\ overlap[r].pc = "save"
    /\ users' = [users EXCEPT ![overlap[r].idx] = overlap[r].token]
    /\ overlap' = [overlap EXCEPT ![r].pc = "adjust"]
    /\ UNCHANGED <<win, stg, profiles, schedules, device, clock, runs, run, visits,
                   cmds, issued, foundOff, req, calls, logs, rt, service, sleepRows,
                   mutations>>

\* The rest of the pass with the token in hand: the status is queried, the
\* mode branches decide and the command is sent; a call that fails on every
\* attempt ends the pass in the per-user catch
OverlapAdjust(r) ==
    /\ \/ overlap[r].pc = "adjust"
       \/ /\ overlap[r].pc = "profile"
          /\ ~NeedsRefresh(FALSE, clock, overlap[r].token.expiresAt)
    /\ LET u  == overlap[r].idx
           tp == profiles[u]
           d  == Decision(tp, toUserLocal(clock, tp.tzOffset), device[u])
       IN  \E ok \in BOOLEAN :
             device' = IF ok /\ d.kind = "setLevel"
                         THEN [device EXCEPT ![u] = Heating(d.level)]
                       ELSE IF ok /\ d.kind = "turnOff"
                         THEN [device EXCEPT ![u] = NotHeating]
                       ELSE device
    /\ overlap' = [overlap EXCEPT ![r] = NextPass(@)]
    /\ UNCHANGED <<win, stg, profiles, schedules, clock, runs, run, visits, cmds,
                   issued, foundOff, requestVars, service, sleepRows, mutations>>

NextOverlap ==
    \E r \in OverlapRuns :
        \/ OverlapFetch(r)
        \/ OverlapRefresh(r)
        \/ OverlapSave(r)
        \/ OverlapAdjust(r)

SpecOverlap == InitOverlap /\ [][NextOverlap]_vars

----------------------------------------------------------------------------
(* setActiveProfile and deleteSleepProfile *)

\* activeProfileId: integer("activeProfileId"), nullable; null is written 0
NullId == 0

\* Browser sessions that send mutations, each one request at a time
Sessions == { "s1", "s2" }

\* Ids of the stored sleep profiles: serial, from 1
ProfileIds == Users

SleepRow(id, email) == [id |-> id, email |-> email]

\* No request of the session is under way
SessionIdle == [op |-> "none", email |-> 0, id |-> NullId, pc |-> "idle"]

\* select().from(sleepProfiles).where(and(eq(id), eq(email))) returns a row
Existing(id, email) == SleepRow(id, email) \in sleepRows

\* The device after adjustTemperature() has gone through the rows, the
\* passes of the users in failed having ended in the per-user catch
AdjustedDevice(failed) ==
    [u \in Users |->
        LET tp == profiles[u]
            d  == Decision(tp, toUserLocal(clock, tp.tzOffset), device[u])
        IN  IF u \in failed THEN device[u]
            ELSE IF d.kind = "setLevel" THEN Heating(d.level)
            ELSE IF d.kind = "turnOff" THEN NotHeating
            ELSE device[u]]

\* Every user has the default settings row and owns one sleep profile, not
\* active yet
InitProfiles ==
    /\ win = WinIdle /\ stg = StgIdle /\ rt = RtIdle
    /\ profiles = [u \in Users |-> DefaultConfig[1]]
    /\ schedules = [u \in Users |-> DefaultConfig[2]]
    /\ device = [u \in Users |-> NotHeating]
    /\ users = [u \in Users |-> ValidToken]
    /\ clock \in AttemptTimes
    /\ runs = 0 /\ run = Idle
    /\ visits = {} /\ cmds = {}
    /\ issued = [u \in Users |-> NeverIssued]
    /\ foundOff = [u \in Users |-> NeverFound]
    /\ req = NoRequest /\ calls = <<>> /\ logs = <<>>
    /\ overlap = NoOverlap
    /\ service = [u \in Users |-> <<>>]
    /\ sleepRows = { SleepRow(u, u) : u \in Users }
    /\ mutations = [s \in Sessions |-> SessionIdle]

\* setActiveProfile({ profileId }) arrives with the cookie of a user; a null
\* profileId needs no verification
CallSetActive(s) ==
    /\ mutations[s].pc = "idle"
    /\ \E email \in Users, profileId \in {NullId} \cup ProfileIds :
          mutations' = [mutations EXCEPT ![s] =
                          [op |-> "setActiveProfile", email |-> email, id |-> profileId,
                           pc |-> IF profileId # NullId THEN "verify" ELSE "update"]]
    /\ UNCHANGED <<win, stg, profiles, schedules, device, clock, runs, run, visits,
                   cmds, issued, foundOff, requestVars, overlap, service, sleepRows>>

\* The profile is looked up by id and owner: NOT_FOUND is thrown if there
\* is none
SetActiveVerify(s) ==
    /\ mutations[s].op = "setActiveProfile" /\ mutations[s].pc = "verify"
    /\ mutations' = [mutations EXCEPT ![s] =
                        IF Existing(@.id, @.email) THEN [@ EXCEPT !.pc = "update"]
                        ELSE SessionIdle]
    /\ UNCHANGED <<win, stg, profiles, schedules, device, clock, runs, run, visits,
                   cmds, issued, foundOff, requestVars, overlap, service, sleepRows>>

\* db.update(userTemperatureProfile).set({ activeProfileId, preheatOnly })
SetActiveUpdate(s) ==
    /\ mutations[s].op = "setActiveProfile" /\ mutations[s].pc = "update"
    /\ profiles' = [profiles EXCEPT
                       ![mutations[s].email].activeProfileId = mutations[s].id,
                       ![mutations[s].email].preheatOnly = (mutations[s].id = NullId)]
    /\ mutations' = [mutations EXCEPT ![s].pc = "adjust"]
    /\ UNCHANGED <<win, stg, schedules, device, clock, runs, run, visits,
                   cmds, issued, foundOff, requestVars, overlap, service, sleepRows>>

\* await adjustTemperature(), and the mutation returns
SetActiveAdjust(s) ==
    /\ mutations[s].op = "setActiveProfile" /\ mutations[s].pc = "adjust"
    /\ \E failed \in SUBSET Users : device' = AdjustedDevice(failed)
    /\ mutations' = [mutations EXCEPT ![s] = SessionIdle]
    /\ UNCHANGED <<win, stg, profiles, schedules, clock, runs, run, visits,
                   cmds, issued, foundOff, requestVars, overlap, service, sleepRows>>

\* deleteSleepProfile({ id }) arrives with the cookie of a user
CallDelete(s) ==
    /\ mutations[s].pc = "idle"
    /\ \E email \in Users, id \in ProfileIds :
          mutations' = [mutations EXCEPT ![s] =
                          [op |-> "deleteSleepProfile", email |-> email, id |-> id,
                           pc |-> "existing"]]
    /\ UNCHANGED <<win, stg, profiles, schedules, device, clock, runs, run, visits,
                   cmds, issued, foundOff, requestVars, overlap, service, sleepRows>>

\* The profile is looked up by id and owner: NOT_FOUND is thrown if there
\* is none
DeleteVerify(s) ==
    /\ mutations[s].op = "deleteSleepProfile" /\ mutations[s].pc = "existing"
    /\ mutations' = [mutations EXCEPT ![s] =
                        IF Existing(@.id, @.email) THEN [@ EXCEPT !.pc = "settings"]
                        ELSE SessionIdle]
    /\ UNCHANGED <<win, stg, profiles, schedules, device, clock, runs, run, visits,
                   cmds, issued, foundOff, requestVars, overlap, service, sleepRows>>

\* The settings row is read: is this the active profile?
DeleteReadSettings(s) ==
    /\ mutations[s].op = "deleteSleepProfile" /\ mutations[s].pc = "settings"
    /\ mutations' = [mutations EXCEPT ![s].pc =
                        IF profiles[mutations[s].email].activeProfileId = mutations[s].id
                        THEN "clear" ELSE "delete"]
    /\ UNCHANGED <<win, stg, profiles, schedules, device, clock, runs, run, visits,
                   cmds, issued, foundOff, requestVars, overlap, service, sleepRows>>

\* db.update(userTemperatureProfile).set({ activeProfileId: null })
DeleteClear(s) ==
    /\ mutations[s].op = "deleteSleepProfile" /\ mutations[s].pc = "clear"
    /\ profiles' = [profiles EXCEPT ![mutations[s].email].activeProfileId = NullId]
    /\ mutations' = [mutations EXCEPT ![s].pc = "delete"]
    /\ UNCHANGED <<win, stg, schedules, device, clock, runs, run, visits,
                   cmds, issued, foundOff, requestVars, overlap, service, sleepRows>>

\* db.delete(sleepProfiles).where(eq(sleepProfiles.id, input.id)), and the
\* mutation returns
DeleteRow(s) ==
    /\ mutations[s].op = "deleteSleepProfile" /\ mutations[s].pc = "delete"
    /\ sleepRows' = { row \in sleepRows : row.id # mutations[s].id }
    /\ mutations' = [mutations EXCEPT ![s] = SessionIdle]
    /\ UNCHANGED <<win, stg, profiles, schedules, device, clock, runs, run, visits,
                   cmds, issued, foundOff, requestVars, overlap, service>>

NextProfiles ==
    \E s \in Sessions :
        \/ CallSetActive(s)
        \/ SetActiveVerify(s)
        \/ SetActiveUpdate(s)
        \/ SetActiveAdjust(s)
        \/ CallDelete(s)
        \/ DeleteVerify(s)
        \/ DeleteReadSettings(s)
        \/ DeleteClear(s)
        \/ DeleteRow(s)

SpecProfiles == InitProfiles /\ [][NextProfiles]_vars

----------------------------------------------------------------------------
(* Time-window evaluator *)

\* C1: for every now, start and end, isInTimeWindow returns true exactly when
\* start <= now < end if start <= end, and exactly when now >= start or
\* now < end if start > end; applying it changes nothing but its result.
C1_WindowContract ==
    [][EvalWindow =>
         /\ win'.result = IF win.start <= win.end
                          THEN win.start <= win.now /\ win.now < win.end
                          ELSE win.now >= win.start \/ win.now < win.end
         /\ win'.now = win.now /\ win'.start = win.start /\ win'.end = win.end
         /\ UNCHANGED <<stg, profiles, schedules, device, clock, runs, run, visits,
                        cmds, issued>>]_vars

\* An overnight window (start > end) was evaluated at an instant before its end
C1_Witness ==
    win.done /\ win.start > win.end /\ win.now < win.end /\ win.result

----------------------------------------------------------------------------
(* Sleep stage resolver: the off stage *)

TimeOfDay(timeString) == timeString[1] * 60 + timeString[2]

\* Minutes since the latest daily occurrence of a time of day
Elapsed(now, minuteOfDay) == (now - minuteOfDay) % MinutesPerDay

\* Minutes from bedTime to the wake-up that follows it (1..1440)
SleepLength(bedTimeStr, wakeupTimeStr) ==
    ((TimeOfDay(wakeupTimeStr) - TimeOfDay(bedTimeStr) - 1) % MinutesPerDay) + 1

\* now falls in a daily occurrence of one of the four heating stages
HeatingStageCovers(now, bedTimeStr, wakeupTimeStr) ==
    LET b == TimeOfDay(bedTimeStr)
        w == TimeOfDay(wakeupTimeStr)
        d == SleepLength(bedTimeStr, wakeupTimeStr)
    IN  \/ Elapsed(now, b - 60) < 60
        \/ Elapsed(now, b) < 60
        \/ Elapsed(now, b + 60) < d - 180
        \/ Elapsed(now, w - 120) < 120

\* No heating stage has a start instant after the latest wake-up instant
OffStartedLast(now, bedTimeStr, wakeupTimeStr) ==
    LET b == TimeOfDay(bedTimeStr)
        w == TimeOfDay(wakeupTimeStr)
    IN  \A s \in {b - 60, b, b + 60, w - 120} : Elapsed(now, s) > Elapsed(now, w)

----------------------------------------------------------------------------
(* Preheat-only mode *)

CommandsFor(u) == { c \in cmds : c.user = u }

LiveRun == ~run.testMode

\* now lies in the 45 minutes that follow a daily occurrence of preheatTime
InPreheatWindow(now, preheatTime) == Elapsed(now, TimeOfDay(preheatTime)) < 45

IsPreheatCommand(c, tp) ==
    c.kind = "setLevel" /\ c.level = tp.preheatLevel * 10 /\ c.duration = 43200

\* C2: in a live run, a preheat-only user whose local now lies in the 45
\* minutes starting at preheatTime and whose device is observed not heating
\* gets exactly one setLevel, with level preheatLevel*10 (within -100..100)
\* and duration 43200 seconds.
C2_PreheatIssued ==
    \A v \in visits :
      (/\ LiveRun
       /\ profiles[v.user].preheatOnly
       /\ InPreheatWindow(v.at, profiles[v.user].preheatTime)
       /\ ~v.observed.isHeating)
      => /\ Cardinality(CommandsFor(v.user)) = 1
         /\ \A c \in CommandsFor(v.user) :
               /\ IsPreheatCommand(c, profiles[v.user])
               /\ c.level >= -100 /\ c.level <= 100

\* C3: for a preheat-only user no run issues turnOff, no run issues a command
\* when the device is observed heating, and the sleep stage is never resolved.
C3_PreheatHandsOff ==
    \A u \in Users :
      profiles[u].preheatOnly =>
        /\ \A c \in CommandsFor(u) : c.kind # "turnOff" /\ ~c.observed.isHeating
        /\ \A v \in visits : v.user = u => ~v.evaluated

\* A live run has met a preheat-only user, cycleEnabled set, with the bed
\* heating outside the activation window, and has sent it nothing
C3_Witness ==
    \E v \in visits :
      /\ LiveRun
      /\ profiles[v.user].preheatOnly /\ profiles[v.user].cycleEnabled
      /\ v.observed.isHeating
      /\ ~InPreheatWindow(v.at, profiles[v.user].preheatTime)
      /\ CommandsFor(v.user) = {}

\* C4: once a run has issued the preheat setLevel for an activation window,
\* no later run sends that user another command for that window, whatever
\* the device state observed later.
C4_PreheatOncePerWindow ==
    \A c \in cmds :
      profiles[c.user].preheatOnly =>
        ~(/\ c.prior.has
          /\ c.prior.at < c.at
          /\ c.at - c.prior.at < 45
          /\ InPreheatWindow(c.prior.at, profiles[c.user].preheatTime)
          /\ InPreheatWindow(c.at, profiles[c.user].preheatTime))

----------------------------------------------------------------------------
(* Sleep-cycle mode *)

HeatingStages == {"pre-heating", "initial", "mid", "final"}

\* The sleep stage was resolved to a heating stage with a target level
HeatingStageActive(v) == v.evaluated /\ v.stage \in HeatingStages /\ v.target.has

C6_CorrectsLevel ==
    \A v \in visits :
      (/\ LiveRun
       /\ HeatingStageActive(v)
       /\ (~v.observed.isHeating \/ v.observed.heatingLevel # v.target.level))
      => /\ Cardinality(CommandsFor(v.user)) = 1
         /\ \A c \in CommandsFor(v.user) :
               c.kind = "setLevel" /\ c.level = v.target.level /\ c.duration = 3600

\* A bed heating at the level of an earlier stage is moved to the new stage's
C6_Witness ==
    \E v \in visits, c \in cmds :
      /\ LiveRun
      /\ HeatingStageActive(v)
      /\ v.observed.isHeating /\ v.observed.heatingLevel # v.target.level
      /\ c.user = v.user /\ c.kind = "setLevel" /\ c.level = v.target.level

\* C7: in the off stage the run issues turnOff if and only if the device is
\* observed heating, and never setLevel.
C7_OffStage ==
    \A v \in visits :
      (v.evaluated /\ v.stage = "off") =>
        /\ \A c \in CommandsFor(v.user) : c.kind = "turnOff"
        /\ (CommandsFor(v.user) # {}) <=> (LiveRun /\ v.observed.isHeating)

\* A heating bed met in the off stage is turned off
C7_Witness ==
    \E v \in visits, c \in cmds :
      /\ v.evaluated /\ v.stage = "off" /\ v.observed.isHeating
      /\ c.user = v.user /\ c.kind = "turnOff" /\ c.ok
      /\ ~device[v.user].isHeating

----------------------------------------------------------------------------
(* The phases of the active sleep profile *)

\* Start instants <= now of today's and yesterday's occurrence of a phase
PhaseStarts(now, phase) ==
    { t \in { DayStart(now) + TimeOfDay(phase.time),
              DayStart(now) + TimeOfDay(phase.time) - MinutesPerDay } : t <= now }

\* Indexes of the phases with the latest start instant <= now
PhasesInEffect(now, phases) ==
    { i \in DOMAIN phases :
        /\ PhaseStarts(now, phases[i]) # {}
        /\ \A j \in DOMAIN phases : \A t \in PhaseStarts(now, phases[j]) :
             \E ti \in PhaseStarts(now, phases[i]) : ti >= t }

ScheduleMode(u) ==
    ~profiles[u].preheatOnly /\ profiles[u].activeProfileId # 0 /\ schedules[u].exists

\* C9: the phase in effect is the one with the latest start instant <= now
\* among today's and yesterday's occurrences of the phases of the user's
\* active schedule, and its level is the level the engine reconciles to.
C9_LatestPhaseLevel ==
    \A v \in visits :
      (LiveRun /\ ScheduleMode(v.user)) =>
        \A i \in PhasesInEffect(v.at, schedules[v.user].phases) :
          LET level == schedules[v.user].phases[i].level
          IN  level.has =>
                /\ \A c \in CommandsFor(v.user) :
                      c.kind = "setLevel" /\ c.level = level.level
                /\ CommandsFor(v.user) = {} => v.observed = Heating(level.level)

\* No off phase of the schedule starts in (from, to]
NoOffPhaseBetween(phases, from, to) ==
    \A i \in DOMAIN phases :
      phases[i].level.has \/ Elapsed(to, TimeOfDay(phases[i].time)) >= to - from

\* C10: in a run where the phase wants heating, the device is observed off,
\* allowManualOverride is true and the engine commanded heating in an
\* earlier run, no setLevel is issued.
C10_ManualOffRespected ==
    \A v \in visits :
      (/\ LiveRun
       /\ ScheduleMode(v.user)
       /\ schedules[v.user].allowManualOverride
       /\ \E i \in PhasesInEffect(v.at, schedules[v.user].phases) :
             schedules[v.user].phases[i].level.has
       /\ ~v.observed.isHeating)
      => \A c \in CommandsFor(v.user) :
            ~(/\ c.kind = "setLevel"
              /\ c.prior.has
              /\ c.prior.at < c.at
              /\ NoOffPhaseBetween(schedules[v.user].phases, c.prior.at, c.at))

\* Minutes a full override lasts
FullOverrideMinutes == 18 * 60

\* C11: while the instant at which a run found the bed turned off
\* (scheduleOverriddenAt) is less than 18 hours old and allowManualOverride
\* is true, a later run issues no setLevel for that user.
C11_FullOverrideHolds ==
    \A c \in cmds :
      (/\ LiveRun
       /\ ScheduleMode(c.user)
       /\ schedules[c.user].allowManualOverride
       /\ foundOff[c.user].has
       /\ foundOff[c.user].at < c.at
       /\ c.at - foundOff[c.user].at < FullOverrideMinutes
       /\ NoOffPhaseBetween(schedules[c.user].phases, foundOff[c.user].at, c.at))
      => c.kind # "setLevel"

\* C12: in a run where the device heats at a level other than the level of
\* the phase, allowManualOverride is true and the last level the engine
\* commanded is the level of the phase, no command is issued.
C12_LevelTweakRespected ==
    \A v \in visits :
      (/\ LiveRun
       /\ ScheduleMode(v.user)
       /\ schedules[v.user].allowManualOverride
       /\ HeatingStageActive(v)
       /\ \E i \in PhasesInEffect(v.at, schedules[v.user].phases) :
             schedules[v.user].phases[i].level = v.target
       /\ v.observed.isHeating
       /\ v.observed.heatingLevel # v.target.level)
      => \A c \in CommandsFor(v.user) :
            ~(c.prior.has /\ c.prior.level = v.target.level /\ c.prior.at < c.at)

\* C13: a user with preheatOnly false and no active profile receives no
\* device command in any run.
C13_NoModeNoCommand ==
    \A u \in Users :
      (LiveRun /\ ~profiles[u].preheatOnly /\ profiles[u].activeProfileId = 0)
        => CommandsFor(u) = {}

\* C14: when the sleep-cycle branch resolves no stage for now (inactive),
\* the run issues no command for that user, whatever the device status.
C14_InactiveNoCommand ==
    \A v \in visits :
      (/\ ~profiles[v.user].preheatOnly
       /\ v.evaluated
       /\ v.stage = "inactive")
      => CommandsFor(v.user) = {}

\* A live run leaves a heating bed alone outside every stage
C14_Witness ==
    \E v \in visits :
      /\ LiveRun /\ run.pc = "idle"
      /\ ~profiles[v.user].preheatOnly
      /\ v.evaluated /\ v.stage = "inactive"
      /\ v.observed.isHeating
      /\ device[v.user] = v.observed
      /\ CommandsFor(v.user) = {}

----------------------------------------------------------------------------
(* retryApiCall with the default number of retries *)

\* Number of attempts of the application under test that were rejected
FailedAttempts == Cardinality({ n \in DOMAIN rt.attempts : ~rt.attempts[n].ok })

\* The delays of a call that exhausts three attempts, in milliseconds
DoublingDelays == <<1000, 2000>>

\* C15: a call that fails k times (k in 0..2) and then succeeds returns that
\* success after exactly k+1 attempts and exactly k delays, of 1s then 2s.
C15_ReturnsFirstSuccess ==
    (rt.state = "returned" /\ rt.retries = DefaultRetries) =>
      LET k == FailedAttempts
      IN  /\ k \in 0..2
          /\ Len(rt.attempts) = k + 1
          /\ rt.attempts[k + 1].ok
          /\ rt.result = rt.attempts[k + 1]
          /\ rt.delays = SubSeq(DoublingDelays, 1, k)

\* Two failures, two delays, and the value of the third attempt is returned
C15_Witness ==
    /\ rt.state = "returned" /\ rt.retries = DefaultRetries
    /\ FailedAttempts = 2
    /\ rt.delays = DoublingDelays
    /\ rt.result = Resolved("r2")

\* C16: a call that always fails is attempted exactly 3 times, never a 4th,
\* is not followed by a delay after the last failure, and the error of the
\* last attempt is thrown.
C16_ThrowsLastError ==
    (rt.retries = DefaultRetries) =>
      /\ Len(rt.attempts) <= 3
      /\ (FailedAttempts = 3) =>
            /\ rt.state = "thrown"
            /\ rt.result = rt.attempts[3]
            /\ Len(rt.delays) = 2
      /\ (rt.state = "thrown") =>
            /\ FailedAttempts = 3
            /\ rt.result = rt.attempts[3]

\* Three failures with different errors: the third one is thrown
C16_Witness ==
    /\ rt.state = "thrown" /\ rt.retries = DefaultRetries
    /\ rt.attempts = <<Rejected("e1"), Rejected("e1"), Rejected("e2")>>
    /\ rt.result = Rejected("e2")
    /\ rt.delays = DoublingDelays

----------------------------------------------------------------------------
(* One request *)

IsUserLine(line) == line.user # 0

\* The users the run has finished with, in the order of their console lines
UsersDone ==
    LET lines == SelectSeq(logs, IsUserLine)
    IN  [n \in DOMAIN lines |-> lines[n].user]

FetchFailed == \E n \in DOMAIN logs : logs[n] = FetchError

\* C17: whatever fails for a user (token refresh, status query, command),
\* the users after it are processed in turn, the run ends without throwing
\* and GET answers success.
C17_UserFailureIsolated ==
    (run.id > 0 /\ ~FetchFailed) =>
      /\ run.pc = "profile" => UsersDone = [n \in 1..(run.idx - 1) |-> n]
      /\ run.pc = "idle" => (UsersDone = [n \in 1..NumUsers |-> n] /\ run.result = "ok")
      /\ req.state = "responded" => req.status = HttpOk

\* The first user fails, the last one gets its command, GET answers 200
C17_Witness ==
    /\ req.state = "responded" /\ req.status = HttpOk
    /\ \E n \in DOMAIN logs : logs[n] = UserError(1)
    /\ \E n \in DOMAIN calls :
          calls[n].user = NumUsers /\ calls[n].api = "setLevel" /\ calls[n].ok
    /\ logs[Len(logs)] = Completed(NumUsers)

\* C18: if the profile query fails, no user is processed, no device or token
\* call is made, the run throws, and GET answers 500.
C18_FetchFailureIs500 ==
    FetchFailed =>
      /\ UsersDone = <<>>
      /\ visits = {} /\ cmds = {}
      /\ calls = <<>>
      /\ run.pc = "idle" /\ run.result = "error"
      /\ req.state = "responded" => req.status = HttpServerError

\* The profile query of a live run fails although a token has run out and a
\* bed is heating, and GET has answered 500
C18_Witness ==
    /\ FetchFailed
    /\ ~run.testMode
    /\ req.state = "responded" /\ req.status = HttpServerError
    /\ \E u \in Users : users[u] = ExpiredToken
    /\ \E u \in Users : device[u].isHeating

\* C19: a step of a test run makes no call to the device or the token
\* service and writes no stored row, and every decision it takes is taken on
\* the synthetic not-heating status.
C19_TestRunHasNoEffect ==
    [][(run.testMode /\ run.pc # "idle") =>
          /\ calls' = calls
          /\ users' = users
          /\ profiles' = profiles /\ schedules' = schedules
          /\ device' = device
          /\ cmds' = cmds
          /\ \A v \in visits' \ visits : v.observed = NotHeating]_vars

\* A test run has decided to preheat a bed that in fact heats, for a user
\* whose token has run out, and has made no call
C19_Witness ==
    /\ run.testMode /\ run.pc = "idle" /\ run.result = "ok"
    /\ calls = <<>>
    /\ \E v \in visits :
          /\ v.stage = "preheat" /\ v.target.has
          /\ users[v.user] = ExpiredToken
    /\ \E u \in Users : device[u].isHeating /\ \E v \in visits : v.user = u

\* C20: the run GET starts is a test run if the testTime parameter is
\* present, whatever its text, and a live run only if it is absent.
C20_PresentMeansTestRun ==
    (run.id > 0) => (run.testMode <=> req.testTime.present)

\* C21: once the profile list is fetched, GET answers success whatever
\* happened to the users; it answers 500 to a run only if the fetch failed.
C21_ResponseIsBatchLevel ==
    (req.state = "responded" /\ run.id > 0) =>
      /\ ~FetchFailed => req.status = HttpOk
      /\ req.status = HttpServerError => (FetchFailed /\ UsersDone = <<>>)

\* Every user of the run has failed, and GET has answered 200
C21_Witness ==
    /\ req.state = "responded" /\ req.status = HttpOk
    /\ ~run.testMode
    /\ \A u \in Users : \E n \in DOMAIN logs : logs[n] = UserError(u)

\* The calls to the device: the status query and the commands
DeviceApis == {"status", "setLevel", "turnOff"}

\* The calls a step adds to the calls made so far
NewCalls == SubSeq(calls', Len(calls) + 1, Len(calls'))

\* C22: a pass of a live run refreshes the user's token if and only if the
\* stored expiry is earlier than now; the refreshed token is saved before
\* any device call of the pass, every device call of the pass carries it,
\* and what is stored afterwards is the new access token, refresh token and
\* expiry.
C22_RefreshThenUse ==
    [][(run.pc = "profile" /\ ~run.testMode) =>
         LET u      == run.idx
             stored == users[u]
             new    == NewCalls
         IN  /\ (\E n \in DOMAIN new : new[n].api = "refresh")
                   <=> run.now > stored.expiresAt
             /\ \A n \in DOMAIN new :
                   (new[n].api \in DeviceApis /\ run.now > stored.expiresAt) =>
                     /\ \E m \in 1..(n - 1) : new[m].api = "refresh" /\ new[m].ok
                     /\ \E m \in 1..(n - 1) : new[m].api = "saveToken" /\ new[m].ok
                     /\ new[n].token # stored.accessToken
                     /\ new[n].token = users'[u].accessToken
                     /\ users'[u].refreshToken # stored.refreshToken
                     /\ users'[u].expiresAt >= run.now
             /\ \A n \in DOMAIN new :
                   (new[n].api \in DeviceApis /\ run.now <= stored.expiresAt) =>
                     (new[n].token = stored.accessToken /\ users'[u] = stored)]_vars

\* A token was refreshed and saved, and the status query and the setLevel
\* of that user carried the new one
C22_Witness ==
    \E u \in Users :
      /\ ~run.testMode
      /\ users[u] = FreshToken(ExpiredToken)
      /\ \E n \in DOMAIN calls :
            /\ calls[n].user = u /\ calls[n].api = "setLevel" /\ calls[n].ok
            /\ calls[n].token = users[u].accessToken
      /\ \E n \in DOMAIN calls :
            /\ calls[n].user = u /\ calls[n].api = "status"
            /\ calls[n].token = users[u].accessToken

\* C23: a user is given up on a failed token refresh only after the refresh
\* was attempted three times.
C23_RefreshRetried ==
    \A n \in DOMAIN calls :
      (calls[n].api = "refresh" /\ ~calls[n].ok) =>
        Cardinality({ m \in DOMAIN calls :
                        calls[m].api = "refresh" /\ calls[m].user = calls[n].user }) = 3

----------------------------------------------------------------------------
(* Stored settings the forms would have refused *)

\* A time of day is well formed if it has an hour part in 0..23 and a minute
\* part in 0..59
WellFormed(timeString) ==
    /\ Len(timeString) >= 2
    /\ timeString[1] \in 0..23
    /\ timeString[2] \in 0..59

\* The columns with a time of day that adjustTemperature reads for a row
TimesRead(tp) ==
    IF tp.preheatOnly THEN {tp.preheatTime}
    ELSE IF tp.cycleEnabled THEN {tp.bedTime, tp.wakeupTime}
    ELSE {}

Commanded(u) ==
    \E n \in DOMAIN calls : calls[n].user = u /\ calls[n].api \in {"setLevel", "turnOff"}

CallFailed(u) == \E n \in DOMAIN calls : calls[n].user = u /\ ~calls[n].ok

Logged(line) == \E n \in DOMAIN logs : logs[n] = line

Processed(u) == \E n \in DOMAIN UsersDone : UsersDone[n] = u

\* C24 as stated: a malformed time of day in any column of a user's row
\* makes the pass for that user fail, with no command for that user.
C24_AnyMalformedFails ==
    \A u \in Users :
      (/\ Processed(u)
       /\ \E t \in {profiles[u].preheatTime, profiles[u].bedTime, profiles[u].wakeupTime} :
             ~WellFormed(t))
      => (Logged(UserError(u)) /\ ~Commanded(u))

\* C24: a malformed time of day in a column that the mode of the row reads
\* makes the pass for that user fail with no command for that user, and the
\* other users are processed as usual: in list order, and to completion
\* unless one of their own calls fails.
C24_MalformedReadFails ==
    \A u \in Users :
      (Processed(u) /\ \E t \in TimesRead(profiles[u]) : ~WellFormed(t)) =>
        /\ Logged(UserError(u)) /\ ~Logged(Completed(u))
        /\ ~Commanded(u) /\ CommandsFor(u) = {}
        /\ \A n \in DOMAIN UsersDone : UsersDone[n] = n
        /\ run.pc = "idle" => (run.result = "ok" /\ Len(UsersDone) = NumUsers)
        /\ \A w \in Users \ {u} :
              (Processed(w) /\ ~CallFailed(w)) => Logged(Completed(w))

\* The first user's preheatTime is malformed; the run has answered, and the
\* last user got its preheat command
C24_Witness ==
    /\ req.state = "responded" /\ ~run.testMode
    /\ profiles[1].preheatOnly /\ ~WellFormed(profiles[1].preheatTime)
    /\ Logged(UserError(1))
    /\ ~CallFailed(1)
    /\ Logged(Completed(NumUsers))
    /\ \E n \in DOMAIN calls :
          calls[n].user = NumUsers /\ calls[n].api = "setLevel" /\ calls[n].ok

\* C25: no setLevel with a level outside -100..100 is sent to the device.
C25_LevelInRange ==
    \A c \in cmds : c.kind = "setLevel" => c.level \in -100..100

----------------------------------------------------------------------------
(* The run, attempt by attempt *)

\* retryApiCall is at work for the user of the pass
InLoop == run.pc \in {"status", "command"}

\* Attempts of the loop at work that failed and were followed by another
RetriedFailures == { n \in DOMAIN rt.attempts : ~rt.attempts[n].ok /\ n < Len(rt.attempts) }

ErrorLinesAbout(u) == { n \in DOMAIN logs : logs[n].level = "error" /\ logs[n].user = u }

\* C26: every failed attempt of a device call, those followed by a retry
\* included, has its line in the log.
C26_EveryFailureLogged ==
    InLoop => Cardinality(RetriedFailures) <= Cardinality(ErrorLinesAbout(run.idx))

\* A pass is at work on the next user of the list, or the list is done
OncePerUserInOrder ==
    /\ \A n \in DOMAIN UsersDone : UsersDone[n] = n
    /\ run.pc \in {"profile", "status", "command"} => Len(UsersDone) = run.idx - 1
    /\ (run.pc = "idle" /\ run.id > 0 /\ ~FetchFailed) => Len(UsersDone) = NumUsers

\* No call of the run to the device is attempted more than three times
AtMostThreeAttempts ==
    /\ Len(rt.attempts) <= 3
    /\ \A u \in Users, api \in DeviceApis :
          Cardinality({ n \in DOMAIN calls : calls[n].user = u /\ calls[n].api = api }) <= 1

\* C27: every run ends, having visited each fetched profile once, in list
\* order, with at most 3 attempts for each device call of each user.
C27_RunTerminates ==
    /\ [](OncePerUserInOrder /\ AtMostThreeAttempts)
    /\ <>(req.state = "responded")

\* A live run has answered after a status query and a command that each
\* failed on every attempt
C27_Witness ==
    /\ req.state = "responded" /\ ~run.testMode
    /\ Len(UsersDone) = NumUsers
    /\ \E n \in DOMAIN calls : calls[n].api = "status" /\ ~calls[n].ok
    /\ \E n \in DOMAIN calls : calls[n].api = "setLevel" /\ ~calls[n].ok

\* C30: a command is sent to a user's bed only after the status query of
\* that user has returned, and a status query that fails on all 3 attempts
\* is followed by no command for that user.
C30_StatusBeforeCommand ==
    /\ run.pc = "command" =>
          \E m \in DOMAIN calls :
            calls[m].user = run.idx /\ calls[m].api = "status" /\ calls[m].ok
    /\ \A n \in DOMAIN calls :
          calls[n].api \in {"setLevel", "turnOff"} =>
            \E m \in 1..(n - 1) :
              calls[m].user = calls[n].user /\ calls[m].api = "status" /\ calls[m].ok
    /\ \A n \in DOMAIN calls :
          (calls[n].api = "status" /\ ~calls[n].ok) =>
            /\ ~Commanded(calls[n].user)
            /\ CommandsFor(calls[n].user) = {}
            /\ ~(run.pc = "command" /\ run.idx = calls[n].user)
    /\ (run.pc = "status" /\ rt.state = "thrown") => FailedAttempts = 3

\* The status query of the first user failed three times and no command
\* followed; the query of the last user went through at the third attempt
\* and its command is being sent
C30_Witness ==
    /\ \E n \in DOMAIN calls : calls[n].user = 1 /\ calls[n].api = "status" /\ ~calls[n].ok
    /\ ~Commanded(1)
    /\ run.pc = "command" /\ run.idx = NumUsers
    /\ rt.state = "returned" /\ FailedAttempts = 2

----------------------------------------------------------------------------
(* The boundaries of a window *)

\* C28 as stated: now = start is inside and now = end is outside, for every
\* start and end.
C28_StartInEndOut ==
    win.done =>
      /\ win.now = win.start => win.result
      /\ win.now = win.end => ~win.result

\* C28: now = end is outside for every start and end, and now = start is
\* inside unless start = end, where the window is empty.
C28_StartInUnlessEmpty ==
    win.done =>
      /\ (win.now = win.start /\ win.start # win.end) => win.result
      /\ win.now = win.end => ~win.result

\* The window that starts and ends at now was evaluated: now is outside
C28_Witness ==
    win.done /\ win.now = win.start /\ win.start = win.end /\ ~win.result

\* C29: a preheat-only user whose preheatTime is later than 23:15, met by a
\* live run after midnight less than 45 minutes after the preheatTime of the
\* day before with the bed not heating, gets the preheat setLevel.
C29_WindowAcrossMidnight ==
    \A v \in visits :
      LET tp == profiles[v.user]
      IN  (/\ LiveRun
           /\ tp.preheatOnly
           /\ TimeOfDay(tp.preheatTime) > 23 * 60 + 15
           /\ MinuteOfDay(v.at) < TimeOfDay(tp.preheatTime)
           /\ Elapsed(v.at, TimeOfDay(tp.preheatTime)) < 45
           /\ ~v.observed.isHeating)
          => \E c \in CommandsFor(v.user) : IsPreheatCommand(c, tp)

----------------------------------------------------------------------------
(* One command per user, one user after the other *)

\* The commands of the run that reached the bed of u: the settled calls that
\* went through
CommandsThrough(u) ==
    { n \in DOMAIN calls :
        calls[n].user = u /\ calls[n].api \in {"setLevel", "turnOff"} /\ calls[n].ok }

\* The attempts of the command in flight for u that went through
AttemptsThrough(u) ==
    IF run.pc = "command" /\ run.idx = u
    THEN { k \in DOMAIN rt.attempts : rt.attempts[k].ok }
    ELSE {}

\* C31: in a run each user gets at most one successful command (one
\* setLevel or one turnOff, never both), and the users are processed one
\* after the other: every call for a user is over before a call for the
\* next user begins.
C31_OneCommandInSequence ==
    /\ \A u \in Users :
          Cardinality(CommandsThrough(u)) + Cardinality(AttemptsThrough(u)) <= 1
    /\ \A m, n \in DOMAIN calls : m < n => calls[m].user <= calls[n].user
    /\ \A n \in DOMAIN calls :
          /\ run.pc \in {"profile", "status", "command"} => calls[n].user <= run.idx
          /\ run.pc = "profile" => calls[n].user < run.idx
    /\ rt.state # "idle" => run.pc \in {"status", "command"}

\* The command of the first user went through, its calls are over, and
\* the command of the last user has just gone through
C31_Witness ==
    /\ Cardinality(CommandsThrough(1)) = 1
    /\ run.pc = "command" /\ run.idx = NumUsers
    /\ Cardinality(AttemptsThrough(NumUsers)) = 1
    /\ \E n \in DOMAIN calls : calls[n].user = NumUsers /\ calls[n].api = "status"

----------------------------------------------------------------------------
(* Sleep stage resolver: the stages of a cycle *)

\* The stage of a cycle of the given sleep length, by the minutes elapsed
\* since its pre-heating began
CycleStageAt(elapsed, length) ==
    IF elapsed < 60 THEN StageResult("pre-heating", Level(StageLevels.initial))
    ELSE IF elapsed < 120 THEN StageResult("initial", Level(StageLevels.initial))
    ELSE IF elapsed < length - 60 THEN StageResult("mid", Level(StageLevels.mid))
    ELSE IF elapsed < length + 60 THEN StageResult("final", Level(StageLevels.final))
    ELSE IF elapsed < length + 90 THEN StageResult("off", NoLevel)
    ELSE StageResult("inactive", NoLevel)

\* The stages that the nightly cycles covering now give it: the cycle whose
\* pre-heating began last, and the one of the night before if it is not over
CoveringStages(now, bedTimeStr, wakeupTimeStr) ==
    LET e == Elapsed(now, TimeOfDay(bedTimeStr) - 60)
        d == SleepLength(bedTimeStr, wakeupTimeStr)
    IN  { CycleStageAt(e, d), CycleStageAt(e + MinutesPerDay, d) }
          \ { StageResult("inactive", NoLevel) }

\* C32: for a cycle of at least 3 hours from bedTime to wakeupTime (a
\* wakeupTime not later than bedTime being the next day's), the stages
\* partition [bedTime-1h, wakeupTime+30min) in the order pre-heating, initial,
\* mid, final, off with targets initialLevel, initialLevel, midLevel,
\* finalLevel and none, and every other time is inactive.
C32_StagesPartitionCycle ==
    (stg.done /\ SleepLength(stg.bedTime, stg.wakeupTime) >= 180) =>
      LET covering == CoveringStages(stg.now, stg.bedTime, stg.wakeupTime)
      IN  IF covering = {}
          THEN stg.result = StageResult("inactive", NoLevel)
          ELSE stg.result \in covering

\* C33: for every bedTime, also one between 00:00 and 00:59, and every now
\* in the hour before the next occurrence of bedTime, the stage is
\* pre-heating with target initialLevel.
C33_PreHeatingHourBeforeBed ==
    (stg.done /\ Elapsed(stg.now, TimeOfDay(stg.bedTime) - 60) < 60) =>
      stg.result = StageResult("pre-heating", Level(StageLevels.initial))

----------------------------------------------------------------------------
(* Overlapping runs and the stored token *)

\* C34: whatever the interleaving of two overlapping live runs on a user
\* whose token has run out, the credentials stored for the user when both
\* runs have finished are those of the most recent refresh performed for
\* that user: an older refresh result does not overwrite a newer one.
C34_LatestRefreshStored ==
    (overlap # NoOverlap /\ \A r \in OverlapRuns : Finished(overlap[r])) =>
      \A u \in Users :
        service[u] # <<>> => users[u] = service[u][Len(service[u])]

----------------------------------------------------------------------------
(* The active profile of a user *)

\* C35: after any sequence or interleaving of setActiveProfile and
\* deleteSleepProfile requests by a user, the user's activeProfileId is null
\* or the id of an existing sleep profile the user owns.
C35_ActiveProfileExists ==
    (mutations # NoMutation /\ \A s \in Sessions : mutations[s] = SessionIdle) =>
      \A u \in Users :
        \/ profiles[u].activeProfileId = NullId
        \/ Existing(profiles[u].activeProfileId, u)

----------------------------------------------------------------------------
(* Requests without the secret *)

\* The request being served does not carry the bearer form of the secret
NotTheSecret == req.state # "none" /\ req.header # Present(BearerForm(CronSecret))

\* C36: a request whose authorization header is not exactly the bearer form
\* of the configured secret is answered 401 and starts no run: no profile is
\* read, no device call is made and nothing is written, with or without a
\* testTime parameter.
C36_UnauthorizedStartsNothing ==
    /\ [](NotTheSecret =>
            /\ req.state \in {"received", "responded"}
            /\ req.state = "responded" => req.status = HttpUnauthorized
            /\ run = Idle /\ runs = 0
            /\ visits = {} /\ cmds = {}
            /\ calls = <<>> /\ logs = <<>>)
    /\ [][NotTheSecret => UNCHANGED <<profiles, schedules, users, device, issued>>]_vars

\* The header is the bearer form of the secret followed by a space, a
\* testTime is supplied, and the answer is 401
C36_Witness ==
    /\ req.state = "responded" /\ req.status = HttpUnauthorized
    /\ req.header = Present(BearerForm(CronSecret) \o <<" ">>)
    /\ req.testTime = Present(<<"2", "7", "0", "0">>)
    /\ run = Idle /\ calls = <<>>

====
